---- MODULE Spec2Model ----
(***************************************************************************)
(* Recall-scoring engine of the stem cell curation package:                *)
(*   scoring/cell_line_recall/single_item_recall.py                        *)
(*   scoring/cell_line_recall/multi_item_recall.py                         *)
(*   scoring/field_recall_scoring/field_recall_calculation.py              *)
(*   scoring/field_recall_scoring/age_range_correction.py                  *)
(*   scoring/cell_line_recall/detailed_analysis.py                         *)
(*   aus_stem_cell_curate/curation/curate.py                               *)
(*   tests/test_curation/test_curate.py                                    *)
(* JSON values are modelled as tagged records, strings as sequences of     *)
(* one-character strings, records (dicts) as functions from the set of     *)
(* field names they hold, sections as sequences of records and documents   *)
(* as functions from the set of section names they hold.                   *)
(***************************************************************************)
EXTENDS Integers, Sequences, FiniteSets, TLC

VARIABLES
  pc,                    \* position of the running scorer
  gt_item, model_item,   \* inputs of compare_items_fieldwise
  cmp_result,            \* (matched_fields, total_gt_fields) it returned
  gt_data, model_data,   \* the two documents
  section_name,          \* the section being scored
  result,                \* SingleItemRecallResult / MultiItemRecallResult
  matches,               \* find_item_matches' dict: gt index -> model indices
  gt_idx,                \* loop variable of calculate_multi_item_recall
  total_matched_fields, total_gt_fields, matched_pairs, skipped_items,
  compared,              \* (gt index, model_idx) pairs handed to compare_items_fieldwise
  used_model_indices,    \* match_multi_item_arrays: consumed model indices
  pairs,                 \* match_multi_item_arrays: matched (gt index, model index) pairs
  match_counts,          \* len(matching_model_indices) seen for each gt record
  pair_idx,              \* loop position in the matched pairs
  sections_left,         \* sections calculate_field_recall_for_cell_line has yet to visit
  field_stats,           \* field_path -> (matched, total_gt)
  model_dir, gt_dir,     \* the model's output files and the ground-truth files
  files_left,            \* model files calculate_field_recall_for_model has yet to visit
  aggregated_stats,      \* field_path -> (matched, total_gt) over the documents
  processed,             \* the cell_line_stats aggregated so far, with their files
  model_recall,          \* calculate_all_models_field_recall: field_path -> recall
  age_gt, age_model,     \* inputs of ages_are_semantically_equivalent
  equivalent,            \* what it returned (or that it raised)
  matched_in, total_in,  \* inputs of set_recall and of the per-field recall
  recall_out,            \* the per-field recall computed from them
  detail_result,         \* (matched, total) detailed_field_comparison returned
  analysis,              \* what the detailed analysis of a document pair did
  raw_response,          \* the model's answer to the identification prompt
  identification_result, \* what identify_cell_lines returned
  unique_cell_lines,     \* curate_article: the identified cell lines
  line_idx, attempt,     \* curate_article: loop variables
  structured_outputs, failed_cell_line_names, total_usage,
  attempts_log,          \* the curate_line calls made, with what each returned
  curate_return,         \* what curate_article returned
  articles,              \* the harness: what curate_article does for each article
  processed_articles, failed_articles, no_cell_line_articles, article_idx

vars == <<pc, gt_item, model_item, cmp_result, gt_data, model_data, section_name,
          result, matches, gt_idx, total_matched_fields, total_gt_fields,
          matched_pairs, skipped_items, compared, used_model_indices, pairs,
          match_counts, pair_idx, sections_left, field_stats, model_dir, gt_dir,
          files_left, aggregated_stats, processed, model_recall, age_gt,
          age_model, equivalent, matched_in, total_in, recall_out,
          detail_result, analysis, raw_response, identification_result,
          unique_cell_lines, line_idx, attempt, structured_outputs,
          failed_cell_line_names, total_usage, attempts_log, curate_return,
          articles, processed_articles, failed_articles, no_cell_line_articles,
          article_idx>>

(***************************************************************************)
(* Bounds of the model                                                     *)
(***************************************************************************)
\* longest section (number of records) of a document
MaxRecords == 2
\* largest field count handed to set_recall
MaxCount == 8
\* largest age the age properties quantify over
AgeLimit == 29
\* most model output files in a model directory
MaxFiles == 2

(***************************************************************************)
(* JSON values and Python's str() / str.strip()                            *)
(***************************************************************************)
None == [t |-> "null", s |-> <<>>, n |-> 0]
S(chars) == [t |-> "str", s |-> chars, n |-> 0]
I(k) == [t |-> "int", s |-> <<>>, n |-> k]
B(b) == [t |-> "bool", s |-> <<>>, n |-> IF b THEN 1 ELSE 0]

MissingStr == <<"M", "i", "s", "s", "i", "n", "g">>
NoneStr == <<"N", "o", "n", "e">>
TrueStr == <<"T", "r", "u", "e">>
FalseStr == <<"F", "a", "l", "s", "e">>

Digit(d) == <<"0", "1", "2", "3", "4", "5", "6", "7", "8", "9">>[d + 1]

RECURSIVE Digits(_)
Digits(k) == IF k < 10 THEN <<Digit(k)>> ELSE Digits(k \div 10) \o <<Digit(k % 10)>>

\* str(value)
str(v) ==
  CASE v.t = "null" -> NoneStr
    [] v.t = "str" -> v.s
    [] v.t = "int" -> IF v.n < 0 THEN <<"-">> \o Digits(-v.n) ELSE Digits(v.n)
    [] v.t = "bool" -> IF v.n = 1 THEN TrueStr ELSE FalseStr

RECURSIVE lstrip(_)
lstrip(s) == IF s # <<>> /\ Head(s) = " " THEN lstrip(Tail(s)) ELSE s

RECURSIVE rstrip(_)
rstrip(s) == IF s # <<>> /\ s[Len(s)] = " " THEN rstrip(SubSeq(s, 1, Len(s) - 1)) ELSE s

\* s.strip()
strip(s) == rstrip(lstrip(s))

\* the sentinel list ["", "Missing", "None"]
MissingSentinels == {<<>>, MissingStr, NoneStr}

\* dict.get(key), None when the key is absent
get(item, key) == IF key \in DOMAIN item THEN item[key] ELSE None

\* dict.get(section_name, [])
get_section(data, name) == IF name \in DOMAIN data THEN data[name] ELSE <<>>

\* the condition "value is not None and str(value).strip() not in [...]"
non_missing(value) == value # None /\ strip(str(value)) \notin MissingSentinels

(***************************************************************************)
(* single_item_recall.py                                                   *)
(***************************************************************************)
SINGLE_ITEM_ARRAYS == {"publications", "donor", "genomic_characterisation",
                       "induced_derivation", "culture_medium", "embryonic_derivation",
                       "basic_data", "generator", "undifferentiated_characterisation"}

MULTI_ITEM_ARRAYS == {"contact", "genomic_modifications", "differentiation_results",
                      "ethics"}

RECURSIVE count_fields_from(_, _)
count_fields_from(item, keys) ==
  IF keys = {} THEN 0
  ELSE LET key == CHOOSE k \in keys : TRUE
       IN  (IF non_missing(item[key]) THEN 1 ELSE 0)
           + count_fields_from(item, keys \ {key})

count_non_missing_fields(item) == count_fields_from(item, DOMAIN item)

\* mutant: the model value is compared untrimmed
compare_field_untrimmed(gt, model, field_name) ==
  LET gt_value == gt[field_name]
      model_value == get(model, field_name)
  IN  IF non_missing(gt_value)
      THEN <<IF model_value # None /\ strip(str(gt_value)) = str(model_value)
             THEN 1 ELSE 0,
             1>>
      ELSE <<0, 0>>

\* one pass of the loop body of compare_items_fieldwise for field_name:
\* the (matched_fields, total_gt_fields) increments
compare_field(gt, model, field_name) ==
  LET gt_value == gt[field_name]
      model_value == get(model, field_name)
  IN  IF non_missing(gt_value)
      THEN <<IF model_value # None /\ strip(str(gt_value)) = strip(str(model_value))
             THEN 1 ELSE 0,
             1>>
      ELSE <<0, 0>>

RECURSIVE compare_from(_, _, _)
compare_from(gt, model, keys) ==
  IF keys = {} THEN <<0, 0>>
  ELSE LET key == CHOOSE k \in keys : TRUE
           one == compare_field(gt, model, key)
           rest == compare_from(gt, model, keys \ {key})
       IN  <<one[1] + rest[1], one[2] + rest[2]>>

compare_items_fieldwise(gt, model) == compare_from(gt, model, DOMAIN gt)

RECURSIVE GCD(_, _)
GCD(a, b) == IF b = 0 THEN a ELSE GCD(b, a % b)

\* what a / 0 gives: Python raises ZeroDivisionError
ZeroDivisionError == <<0, 0>>

\* the float a / b, as a fraction in lowest terms
Divide(a, b) ==
  IF b = 0 THEN ZeroDivisionError ELSE <<a \div GCD(a, b), b \div GCD(a, b)>>
Zero == <<0, 1>>

\* SingleItemRecallResult.__init__
NewSingleResult(name) ==
  [section_name |-> name, total_gt_fields |-> 0, matched_fields |-> 0,
   recall |-> Zero, status |-> "success", message |-> <<>>]

\* mutant: the division is not guarded
set_recall_unguarded(res, matched, total) ==
  [res EXCEPT !.matched_fields = matched, !.total_gt_fields = total,
              !.recall = Divide(matched, total)]

\* set_recall of both result classes
set_recall(res, matched, total) ==
  [res EXCEPT !.matched_fields = matched, !.total_gt_fields = total,
              !.recall = IF total > 0 THEN Divide(matched, total) ELSE Zero]

set_error(res, status, message) == [res EXCEPT !.status = status, !.message = message]

\* mutant: the ground truth counts as missing only when the model is empty too
single_case_gt_first_with_model(gt_section, model_section) ==
  IF Len(gt_section) = 0 /\ Len(model_section) = 0 THEN "gt_missing"
  ELSE IF Len(gt_section) # 1 THEN "gt_multiple"
  ELSE IF Len(model_section) = 0 THEN "model_missing"
  ELSE IF Len(model_section) > 1 THEN "model_multiple"
  ELSE "compare"

\* mutant: two ground-truth records pass the cardinality check
single_case_gt_two_allowed(gt_section, model_section) ==
  IF Len(gt_section) = 0 THEN "gt_missing"
  ELSE IF Len(gt_section) > 2 THEN "gt_multiple"
  ELSE IF Len(model_section) = 0 THEN "model_missing"
  ELSE IF Len(model_section) > 1 THEN "model_multiple"
  ELSE "compare"

\* mutant: a model section of several records is compared by its first record
single_case_model_first_record(gt_section, model_section) ==
  IF Len(gt_section) = 0 THEN "gt_missing"
  ELSE IF Len(gt_section) > 1 THEN "gt_multiple"
  ELSE IF Len(model_section) = 0 THEN "model_missing"
  ELSE "compare"

\* the if/elif chain of calculate_single_item_recall: which branch returns
single_case(gt_section, model_section) ==
  IF Len(gt_section) = 0 THEN "gt_missing"
  ELSE IF Len(gt_section) > 1 THEN "gt_multiple"
  ELSE IF Len(model_section) = 0 THEN "model_missing"
  ELSE IF Len(model_section) > 1 THEN "model_multiple"
  ELSE "compare"

calculate_single_item_recall(gt, model, name) ==
  LET res == NewSingleResult(name)
      gt_section == get_section(gt, name)
      model_section == get_section(model, name)
      branch == single_case(gt_section, model_section)
  IN  CASE branch = "gt_missing" ->
             set_error(res, "missing_sections", <<"Ground truth missing", name>>)
        [] branch = "gt_multiple" ->
             set_error(res, "gt_multiple_items",
                       <<"Ground truth has items", Len(gt_section), name>>)
        [] branch = "model_missing" ->
             [set_recall(res, 0, count_non_missing_fields(gt_section[1]))
                EXCEPT !.message = <<"Model output missing", name>>]
        [] branch = "model_multiple" ->
             [set_recall(res, 0, count_non_missing_fields(gt_section[1]))
                EXCEPT !.status = "success",
                       !.message = <<"Model output has items", Len(model_section), name>>]
        [] branch = "compare" ->
             LET c == compare_items_fieldwise(gt_section[1], model_section[1])
             IN  [set_recall(res, c[1], c[2])
                    EXCEPT !.message = <<"Compared", c[2], c[1]>>]

(***************************************************************************)
(* multi_item_recall.py                                                    *)
(***************************************************************************)
\* MULTI_ITEM_MATCHING_FIELDS.get(section_name); "" stands for None
MULTI_ITEM_MATCHING_FIELDS(name) ==
  CASE name = "contact" -> "last_name"
    [] name = "differentiation_results" -> "cell_type"
    [] name = "ethics" -> "ethics_number"
    [] name = "genomic_modifications" -> "loci_name"
    [] OTHER -> ""

\* MultiItemRecallResult.__init__
NewMultiResult(name) ==
  [section_name |-> name, total_gt_fields |-> 0, matched_fields |-> 0,
   recall |-> Zero, status |-> "success", message |-> <<>>,
   gt_items_count |-> 0, model_items_count |-> 0, matched_pairs |-> 0,
   skipped_items |-> 0]

set_conservative_penalty(res, total, message) ==
  [set_recall(res, 0, total) EXCEPT !.status = "no_matches_conservative",
                                    !.message = message]

\* the trimmed string of the matching field, or None (has = FALSE)
get_matching_field_value(item, field_name) ==
  LET value == get(item, field_name)
  IN  IF value # None /\ strip(str(value)) \notin MissingSentinels
      THEN [has |-> TRUE, s |-> strip(str(value))]
      ELSE [has |-> FALSE, s |-> <<>>]

\* mutant: any model record with a key matches
RECURSIVE matching_model_indices_any_key(_, _, _, _)
matching_model_indices_any_key(gt_value, model_items, matching_field, i) ==
  IF i > Len(model_items) THEN <<>>
  ELSE LET model_value == get_matching_field_value(model_items[i], matching_field)
       IN  (IF model_value.has THEN <<i>> ELSE <<>>)
           \o matching_model_indices_any_key(gt_value, model_items, matching_field, i + 1)

\* the model indices appended to matches[gt_idx], in order
RECURSIVE matching_model_indices(_, _, _, _)
matching_model_indices(gt_value, model_items, matching_field, i) ==
  IF i > Len(model_items) THEN <<>>
  ELSE LET model_value == get_matching_field_value(model_items[i], matching_field)
       IN  (IF model_value.has /\ gt_value.s = model_value.s THEN <<i>> ELSE <<>>)
           \o matching_model_indices(gt_value, model_items, matching_field, i + 1)

\* dict(matches): only the gt indices something was appended for are keys
find_item_matches(gt_items, model_items, matching_field) ==
  LET found(g) == matching_model_indices(
                    get_matching_field_value(gt_items[g], matching_field),
                    model_items, matching_field, 1)
      keys == {g \in 1..Len(gt_items) :
                 /\ get_matching_field_value(gt_items[g], matching_field).has
                 /\ found(g) # <<>>}
  IN  [g \in keys |-> found(g)]

\* mutant: two matches do not count as several
multiple_matches_over_two(model_matches) == Len(model_matches) > 2

\* "if len(model_matches) > 1": several viable matches
multiple_matches(model_matches) == Len(model_matches) > 1

\* sum(count_non_missing_fields(item) for item in gt_section)
RECURSIVE sum_non_missing_fields(_, _)
sum_non_missing_fields(section, i) ==
  IF i > Len(section) THEN 0
  ELSE count_non_missing_fields(section[i]) + sum_non_missing_fields(section, i + 1)

UnchangedBatch == UNCHANGED <<model_dir, gt_dir, files_left, aggregated_stats,
                              processed, model_recall>>
UnchangedAge == UNCHANGED <<age_gt, age_model, equivalent>>
UnchangedRecall == UNCHANGED <<matched_in, total_in, recall_out>>
UnchangedDetail == UNCHANGED <<detail_result, analysis>>
UnchangedIdentify == UNCHANGED <<raw_response, identification_result>>
UnchangedCurate == UNCHANGED <<unique_cell_lines, line_idx, attempt, structured_outputs,
                               failed_cell_line_names, total_usage, attempts_log,
                               curate_return>>
UnchangedHarness == UNCHANGED <<articles, processed_articles, failed_articles,
                                no_cell_line_articles, article_idx>>
UnchangedCuration == UnchangedIdentify /\ UnchangedCurate /\ UnchangedHarness
UnchangedCompare == UNCHANGED <<gt_item, model_item, cmp_result>>
UnchangedInputs == UNCHANGED <<gt_data, model_data, section_name>>
UnchangedField == UNCHANGED <<used_model_indices, pairs, match_counts, pair_idx,
                              sections_left, field_stats>>
UnchangedMulti == UNCHANGED <<matches, total_matched_fields, total_gt_fields,
                              matched_pairs, skipped_items, compared>>

\* calculate_multi_item_recall up to the call of find_item_matches
MultiBegin ==
  /\ pc = "start"
  /\ LET gt_section == get_section(gt_data, section_name)
         model_section == get_section(model_data, section_name)
         res == [NewMultiResult(section_name)
                   EXCEPT !.gt_items_count = Len(gt_section),
                          !.model_items_count = Len(model_section)]
         matching_field == MULTI_ITEM_MATCHING_FIELDS(section_name)
     IN  IF Len(gt_section) = 0
         THEN /\ result' = [res EXCEPT !.message = <<"Ground truth missing", section_name>>]
              /\ pc' = "done"
              /\ UNCHANGED <<matches, gt_idx>>
         ELSE IF Len(model_section) = 0
         THEN /\ result' = set_conservative_penalty(
                             res, sum_non_missing_fields(gt_section, 1),
                             <<"Model output missing", section_name>>)
              /\ pc' = "done"
              /\ UNCHANGED <<matches, gt_idx>>
         ELSE IF matching_field = ""
         THEN /\ result' = [res EXCEPT !.message = <<"No matching field defined", section_name>>]
              /\ pc' = "done"
              /\ UNCHANGED <<matches, gt_idx>>
         ELSE /\ result' = res
              /\ matches' = find_item_matches(gt_section, model_section, matching_field)
              /\ gt_idx' = 1
              /\ pc' = "loop"
  /\ UNCHANGED <<total_matched_fields, total_gt_fields, matched_pairs, skipped_items,
                 compared>>
  /\ UnchangedCompare /\ UnchangedInputs /\ UnchangedField
  /\ UnchangedBatch /\ UnchangedAge /\ UnchangedRecall
  /\ UnchangedDetail /\ UnchangedCuration

\* one pass of "for gt_idx, gt_item in enumerate(gt_section)"
MultiStep ==
  /\ pc = "loop"
  /\ gt_idx <= Len(get_section(gt_data, section_name))
  /\ LET gt_section == get_section(gt_data, section_name)
         model_section == get_section(model_data, section_name)
         item == gt_section[gt_idx]
         gt_field_count == count_non_missing_fields(item)
     IN  IF gt_idx \notin DOMAIN matches
         THEN /\ total_gt_fields' = total_gt_fields + gt_field_count
              /\ UNCHANGED <<total_matched_fields, matched_pairs, skipped_items, compared>>
         ELSE IF multiple_matches(matches[gt_idx])
         THEN /\ skipped_items' = skipped_items + 1
              /\ UNCHANGED <<total_matched_fields, total_gt_fields, matched_pairs, compared>>
         ELSE LET model_idx == matches[gt_idx][1]
                  c == compare_items_fieldwise(item, model_section[model_idx])
              IN  /\ total_matched_fields' = total_matched_fields + c[1]
                  /\ total_gt_fields' = total_gt_fields + c[2]
                  /\ matched_pairs' = matched_pairs + 1
                  /\ compared' = compared \cup {<<gt_idx, model_idx>>}
                  /\ UNCHANGED skipped_items
  /\ gt_idx' = gt_idx + 1
  /\ UNCHANGED <<pc, result, matches>>
  /\ UnchangedCompare /\ UnchangedInputs /\ UnchangedField
  /\ UnchangedBatch /\ UnchangedAge /\ UnchangedRecall
  /\ UnchangedDetail /\ UnchangedCuration

\* after the loop: set the results, the status and the message
MultiFinish ==
  /\ pc = "loop"
  /\ gt_idx > Len(get_section(gt_data, section_name))
  /\ LET unmatched_items == Len(get_section(gt_data, section_name))
                              - matched_pairs - skipped_items
         r1 == [set_recall(result, total_matched_fields, total_gt_fields)
                  EXCEPT !.matched_pairs = matched_pairs,
                         !.skipped_items = skipped_items]
         r2 == IF skipped_items > 0
               THEN [r1 EXCEPT !.status = "multiple_matches_skipped",
                               !.message = <<"Matched pairs, skipped", matched_pairs,
                                             skipped_items>>]
               ELSE IF total_gt_fields = 0
               THEN [r1 EXCEPT !.message = <<"No valid GT items",
                                             MULTI_ITEM_MATCHING_FIELDS(section_name)>>]
               ELSE [r1 EXCEPT !.message = <<"Matched pairs, compared", matched_pairs,
                                             total_gt_fields>>]
     IN  result' = IF unmatched_items > 0
                   THEN [r2 EXCEPT !.status = IF r2.status = "success"
                                              THEN "no_matches_conservative"
                                              ELSE r2.status,
                                   !.message = r2.message \o <<"no matches", unmatched_items>>]
                   ELSE r2
  /\ pc' = "done"
  /\ UNCHANGED <<matches, gt_idx, total_matched_fields, total_gt_fields, matched_pairs,
                 skipped_items, compared>>
  /\ UnchangedCompare /\ UnchangedInputs /\ UnchangedField
  /\ UnchangedBatch /\ UnchangedAge /\ UnchangedRecall
  /\ UnchangedDetail /\ UnchangedCuration

(***************************************************************************)
(* field_recall_calculation.py                                             *)
(***************************************************************************)
is_missing_value(value) == value = None \/ strip(str(value)) \in MissingSentinels

\* the field path f"{section_name}.{field_name}"
get_field_path(name, field_name) == <<name, field_name>>

\* mutant: the two counters are mixed up
bump_swapped(stats, field_path, dm, dt) ==
  IF field_path \in DOMAIN stats
  THEN [stats EXCEPT ![field_path] = <<@[1] + dt, @[2] + dm>>]
  ELSE stats @@ (field_path :> <<dt, dm>>)

\* field_stats[field_path][0] += dm; field_stats[field_path][1] += dt
\* (a defaultdict: the entry starts as [0, 0])
bump(stats, field_path, dm, dt) ==
  IF field_path \in DOMAIN stats
  THEN [stats EXCEPT ![field_path] = <<@[1] + dm, @[2] + dt>>]
  ELSE stats @@ (field_path :> <<dm, dt>>)

\* the loop "for field_name, gt_value in gt_item.items()" that counts a
\* ground-truth record against the model record paired with it
RECURSIVE field_compare(_, _, _, _, _)
field_compare(stats, name, gt, model, keys) ==
  IF keys = {} THEN stats
  ELSE LET field_name == CHOOSE k \in keys : TRUE
           gt_value == gt[field_name]
           model_value == get(model, field_name)
           hit == /\ ~is_missing_value(model_value)
                  /\ strip(str(gt_value)) = strip(str(model_value))
           next == IF ~is_missing_value(gt_value)
                   THEN bump(stats, get_field_path(name, field_name),
                             IF hit THEN 1 ELSE 0, 1)
                   ELSE stats
       IN  field_compare(next, name, gt, model, keys \ {field_name})

\* mutant: an unmatched ground-truth record is not counted
field_count_nothing(stats, name, gt, keys) == stats

\* the loop over the fields of an unmatched ground-truth record
RECURSIVE field_count_only(_, _, _, _)
field_count_only(stats, name, gt, keys) ==
  IF keys = {} THEN stats
  ELSE LET field_name == CHOOSE k \in keys : TRUE
           next == IF ~is_missing_value(gt[field_name])
                   THEN bump(stats, get_field_path(name, field_name), 0, 1)
                   ELSE stats
       IN  field_count_only(next, name, gt, keys \ {field_name})

\* mutant: the ground-truth record is counted only beside one model record
field_single_item_needs_model(stats, gt_section, model_section, name) ==
  IF Len(gt_section) = 1 /\ Len(model_section) = 1
  THEN field_compare(stats, name, gt_section[1], model_section[1], DOMAIN gt_section[1])
  ELSE stats

\* the single-item branch for one section
field_single_item(stats, gt_section, model_section, name) ==
  IF Len(gt_section) = 1
  THEN LET gt == gt_section[1]
           model == IF Len(model_section) = 1 THEN model_section[1] ELSE <<>>
       IN  field_compare(stats, name, gt, model, DOMAIN gt)
  ELSE stats

\* match_multi_item_arrays: the model indices that match gt_key_value and
\* are not used yet
unused_matching_indices(gt_key_value, model_items, matching_field, used) ==
  {i \in 1..Len(model_items) :
     /\ i \notin used
     /\ ~is_missing_value(get(model_items[i], matching_field))
     /\ strip(str(gt_key_value)) = strip(str(get(model_items[i], matching_field)))}

\* calculate_all_models_field_recall: matched / total_gt if total_gt > 0 else 0.0
field_recall(field_matched, total_gt) ==
  IF total_gt > 0 THEN Divide(field_matched, total_gt) ELSE Zero

\* calculate_field_recall_for_cell_line: field_stats and all_sections
FieldStart ==
  /\ pc = "field"
  /\ field_stats' = <<>>
  /\ sections_left' = DOMAIN gt_data \cup DOMAIN model_data
  /\ pc' = "sections"
  /\ UNCHANGED <<used_model_indices, pairs, match_counts, pair_idx, result, gt_idx>>
  /\ UnchangedCompare /\ UnchangedInputs /\ UnchangedMulti
  /\ UnchangedBatch /\ UnchangedAge /\ UnchangedRecall
  /\ UnchangedDetail /\ UnchangedCuration

\* a pass of "for section_name in all_sections" for a single-item section
FieldSingle ==
  /\ pc = "sections"
  /\ \E name \in sections_left \cap SINGLE_ITEM_ARRAYS :
       /\ section_name' = name
       /\ sections_left' = sections_left \ {name}
       /\ field_stats' = field_single_item(field_stats, get_section(gt_data, name),
                                           get_section(model_data, name), name)
  /\ UNCHANGED <<pc, gt_data, model_data, used_model_indices, pairs, match_counts,
                 pair_idx, result, gt_idx>>
  /\ UnchangedCompare /\ UnchangedMulti
  /\ UnchangedBatch /\ UnchangedAge /\ UnchangedRecall
  /\ UnchangedDetail /\ UnchangedCuration

\* a pass for a multi-item section: entry to match_multi_item_arrays
FieldMulti ==
  /\ pc = "sections"
  /\ \E name \in sections_left \cap MULTI_ITEM_ARRAYS :
       /\ MULTI_ITEM_MATCHING_FIELDS(name) # ""
       /\ section_name' = name
       /\ sections_left' = sections_left \ {name}
  /\ pairs' = <<>>
  /\ used_model_indices' = {}
  /\ match_counts' = <<>>
  /\ gt_idx' = 1
  /\ pc' = "match"
  /\ UNCHANGED <<gt_data, model_data, pair_idx, field_stats, result>>
  /\ UnchangedCompare /\ UnchangedMulti
  /\ UnchangedBatch /\ UnchangedAge /\ UnchangedRecall
  /\ UnchangedDetail /\ UnchangedCuration

\* match_multi_item_arrays: one pass of "for gt_item in gt_items"
FieldMatchStep ==
  /\ pc = "match"
  /\ gt_idx <= Len(get_section(gt_data, section_name))
  /\ LET gt_key_value == get(get_section(gt_data, section_name)[gt_idx],
                             MULTI_ITEM_MATCHING_FIELDS(section_name))
         found == unused_matching_indices(gt_key_value,
                                          get_section(model_data, section_name),
                                          MULTI_ITEM_MATCHING_FIELDS(section_name),
                                          used_model_indices)
     IN  IF is_missing_value(gt_key_value)
         THEN /\ match_counts' = Append(match_counts, 0)
              /\ UNCHANGED <<pairs, used_model_indices>>
         ELSE /\ match_counts' = Append(match_counts, Cardinality(found))
              /\ IF Cardinality(found) = 1
                 THEN LET model_idx == CHOOSE i \in found : TRUE
                      IN  /\ pairs' = Append(pairs, <<gt_idx, model_idx>>)
                          /\ used_model_indices' = used_model_indices \cup {model_idx}
                 ELSE UNCHANGED <<pairs, used_model_indices>>
  /\ gt_idx' = gt_idx + 1
  /\ UNCHANGED <<pc, pair_idx, sections_left, field_stats, result>>
  /\ UnchangedCompare /\ UnchangedInputs /\ UnchangedMulti
  /\ UnchangedBatch /\ UnchangedAge /\ UnchangedRecall
  /\ UnchangedDetail /\ UnchangedCuration

\* match_multi_item_arrays returns
FieldMatchDone ==
  /\ pc = "match"
  /\ gt_idx > Len(get_section(gt_data, section_name))
  /\ pair_idx' = 1
  /\ pc' = "pairs"
  /\ UNCHANGED <<used_model_indices, pairs, match_counts, sections_left, field_stats,
                 result, gt_idx>>
  /\ UnchangedCompare /\ UnchangedInputs /\ UnchangedMulti
  /\ UnchangedBatch /\ UnchangedAge /\ UnchangedRecall
  /\ UnchangedDetail /\ UnchangedCuration

\* one pass of "for gt_item, model_item in matched_pairs"
FieldPair ==
  /\ pc = "pairs"
  /\ pair_idx <= Len(pairs)
  /\ LET gt == get_section(gt_data, section_name)[pairs[pair_idx][1]]
         model == get_section(model_data, section_name)[pairs[pair_idx][2]]
     IN  field_stats' = field_compare(field_stats, section_name, gt, model, DOMAIN gt)
  /\ pair_idx' = pair_idx + 1
  /\ UNCHANGED <<pc, used_model_indices, pairs, match_counts, sections_left, result,
                 gt_idx>>
  /\ UnchangedCompare /\ UnchangedInputs /\ UnchangedMulti
  /\ UnchangedBatch /\ UnchangedAge /\ UnchangedRecall
  /\ UnchangedDetail /\ UnchangedCuration

\* matched_gt_items is built and the loop over the unmatched records starts
FieldPairsDone ==
  /\ pc = "pairs"
  /\ pair_idx > Len(pairs)
  /\ gt_idx' = 1
  /\ pc' = "unmatched"
  /\ UNCHANGED <<used_model_indices, pairs, match_counts, pair_idx, sections_left,
                 field_stats, result>>
  /\ UnchangedCompare /\ UnchangedInputs /\ UnchangedMulti
  /\ UnchangedBatch /\ UnchangedAge /\ UnchangedRecall
  /\ UnchangedDetail /\ UnchangedCuration

\* id(gt_item) in matched_gt_items: the record is the first of a matched pair
in_matched_gt_items(g) == \E k \in 1..Len(pairs) : pairs[k][1] = g

\* one pass of "for gt_item in gt_section" over the unmatched records
FieldUnmatched ==
  /\ pc = "unmatched"
  /\ gt_idx <= Len(get_section(gt_data, section_name))
  /\ LET gt == get_section(gt_data, section_name)[gt_idx]
     IN  field_stats' = IF ~in_matched_gt_items(gt_idx)
                        THEN field_count_only(field_stats, section_name, gt, DOMAIN gt)
                        ELSE field_stats
  /\ gt_idx' = gt_idx + 1
  /\ UNCHANGED <<pc, used_model_indices, pairs, match_counts, pair_idx, sections_left,
                 result>>
  /\ UnchangedCompare /\ UnchangedInputs /\ UnchangedMulti
  /\ UnchangedBatch /\ UnchangedAge /\ UnchangedRecall
  /\ UnchangedDetail /\ UnchangedCuration

\* the section is finished: back to the loop over the sections
FieldUnmatchedDone ==
  /\ pc = "unmatched"
  /\ gt_idx > Len(get_section(gt_data, section_name))
  /\ pc' = "sections"
  /\ UNCHANGED <<used_model_indices, pairs, match_counts, pair_idx, sections_left,
                 field_stats, result, gt_idx>>
  /\ UnchangedCompare /\ UnchangedInputs /\ UnchangedMulti
  /\ UnchangedBatch /\ UnchangedAge /\ UnchangedRecall
  /\ UnchangedDetail /\ UnchangedCuration

\* every section is visited: the statistics are returned
FieldDone ==
  /\ pc = "sections"
  /\ sections_left = {}
  /\ pc' = "done"
  /\ UNCHANGED <<used_model_indices, pairs, match_counts, pair_idx, sections_left,
                 field_stats, result, gt_idx>>
  /\ UnchangedCompare /\ UnchangedInputs /\ UnchangedMulti
  /\ UnchangedBatch /\ UnchangedAge /\ UnchangedRecall
  /\ UnchangedDetail /\ UnchangedCuration

\* calculate_single_item_recall on the section
SingleScore ==
  /\ pc = "start"
  /\ result' = calculate_single_item_recall(gt_data, model_data, section_name)
  /\ pc' = "field"
  /\ UNCHANGED gt_idx
  /\ UnchangedCompare /\ UnchangedInputs /\ UnchangedMulti /\ UnchangedField
  /\ UnchangedBatch /\ UnchangedAge /\ UnchangedRecall
  /\ UnchangedDetail /\ UnchangedCuration

(***************************************************************************)
(* Inputs                                                                  *)
(***************************************************************************)
\* every record over the given fields and values, fields may be absent
RecordsOver(fields, vals) ==
  UNION {[fs -> vals] : fs \in SUBSET fields}

\* the records holding field (or not) with one of vals
FieldChoices(field, vals) == {<<>>} \cup {[x \in {field} |-> v] : v \in vals}

\* sequences of at most n elements of set
SeqsUpTo(set, n) == UNION {[1..k -> set] : k \in 0..n}

\* documents that hold the section name (or not) with a section of records
DocsOver(name, records) ==
  {<<>>} \cup {[x \in {name} |-> sec] : sec \in SeqsUpTo(records, MaxRecords)}

\* values of the comparator's inputs: null, the sentinels, padded and plain
\* strings, a number and a boolean with the strings they print as
CompareValues ==
  {None, S(<<>>), S(<<" ">>), S(MissingStr), S(<<" ">> \o MissingStr), S(NoneStr),
   S(<<"a">>), S(<<" ", "a", " ">>), S(<<"b">>), I(1), S(<<"1">>), B(TRUE), S(TrueStr)}

CompareItems == RecordsOver({"age", "sex"}, CompareValues)

\* records of the contact section (matching field last_name): the key absent,
\* null, a sentinel, "a", " a" (equal to "a" once trimmed) or "b", with an
\* email; and the two "a" keys without one
ContactItems ==
  {a @@ [x \in {"email"} |-> S(<<"x">>)] :
     a \in FieldChoices("last_name", {None, S(MissingStr), S(<<"a">>), S(<<" ", "a">>),
                                      S(<<"b">>)})}
  \cup {[x \in {"last_name"} |-> v] : v \in {S(<<"a">>), S(<<" ", "a">>)}}

\* records of the donor section: an age that is absent, a sentinel, "a" or
\* " a", and a sex that is absent or "b"
DonorItems ==
  {a @@ b : a \in FieldChoices("age", {S(MissingStr), S(<<"a">>), S(<<" ", "a">>)}),
            b \in FieldChoices("sex", {S(<<"b">>)})}

IdleCompare == gt_item = <<>> /\ model_item = <<>> /\ cmp_result = <<0, 0>>

IdleInputs == gt_data = <<>> /\ model_data = <<>> /\ section_name = ""

IdleMulti ==
  /\ result = <<>> /\ matches = <<>> /\ gt_idx = 0
  /\ total_matched_fields = 0 /\ total_gt_fields = 0
  /\ matched_pairs = 0 /\ skipped_items = 0 /\ compared = {}

IdleBatch ==
  /\ model_dir = <<>> /\ gt_dir = <<>> /\ files_left = <<>>
  /\ aggregated_stats = <<>> /\ processed = <<>> /\ model_recall = <<>>

IdleAge == age_gt = None /\ age_model = None /\ equivalent = "none"

IdleRecall == matched_in = 0 /\ total_in = 0 /\ recall_out = <<0, 1>>

IdleLater == IdleBatch /\ IdleAge /\ IdleRecall

IdleDetail == detail_result = <<0, 0>> /\ analysis = "none"

IdleIdentify == raw_response = <<>> /\ identification_result = <<>>

IdleCurate ==
  /\ unique_cell_lines = <<>> /\ line_idx = 0 /\ attempt = 0
  /\ structured_outputs = <<>> /\ failed_cell_line_names = <<>> /\ total_usage = 0
  /\ attempts_log = <<>> /\ curate_return = <<>>

IdleHarness ==
  /\ articles = <<>> /\ processed_articles = 0 /\ failed_articles = <<>>
  /\ no_cell_line_articles = <<>> /\ article_idx = 0

IdleCuration == IdleIdentify /\ IdleCurate /\ IdleHarness

IdleField ==
  /\ used_model_indices = {} /\ pairs = <<>> /\ match_counts = <<>>
  /\ pair_idx = 0 /\ sections_left = {} /\ field_stats = <<>>

(***************************************************************************)
(* SpecCompare: compare_items_fieldwise on every pair of records           *)
(***************************************************************************)
InitCompare ==
  /\ pc = "start"
  /\ gt_item \in CompareItems /\ model_item \in CompareItems
  /\ cmp_result = <<0, 0>>
  /\ IdleInputs /\ IdleMulti /\ IdleField
  /\ IdleLater
  /\ IdleDetail /\ IdleCuration

Compare ==
  /\ pc = "start"
  /\ cmp_result' = compare_items_fieldwise(gt_item, model_item)
  /\ pc' = "done"
  /\ UNCHANGED <<gt_item, model_item, result, gt_idx>>
  /\ UnchangedMulti /\ UnchangedInputs /\ UnchangedField
  /\ UnchangedBatch /\ UnchangedAge /\ UnchangedRecall
  /\ UnchangedDetail /\ UnchangedCuration

NextCompare == Compare

SpecCompare == InitCompare /\ [][NextCompare]_vars

(***************************************************************************)
(* SpecMulti: calculate_multi_item_recall on the contact section           *)
(***************************************************************************)
InitMulti ==
  /\ pc = "start"
  /\ section_name = "contact"
  /\ gt_data \in DocsOver("contact", ContactItems)
  /\ model_data \in DocsOver("contact", ContactItems)
  /\ IdleCompare /\ IdleMulti /\ IdleField
  /\ IdleLater
  /\ IdleDetail /\ IdleCuration

NextMulti == MultiBegin \/ MultiStep \/ MultiFinish

SpecMulti == InitMulti /\ [][NextMulti]_vars

(***************************************************************************)
(* SpecSingle: calculate_single_item_recall, then the field-level pipeline, *)
(* on the donor section                                                    *)
(***************************************************************************)
InitSingle ==
  /\ pc = "start"
  /\ section_name = "donor"
  /\ gt_data \in DocsOver("donor", DonorItems)
  /\ model_data \in DocsOver("donor", DonorItems)
  /\ IdleCompare /\ IdleMulti /\ IdleField
  /\ IdleLater
  /\ IdleDetail /\ IdleCuration

NextSingle == SingleScore \/ FieldStart \/ FieldSingle \/ FieldDone

SpecSingle == InitSingle /\ [][NextSingle]_vars

(***************************************************************************)
(* SpecField: the field-level pipeline on the contact section              *)
(***************************************************************************)
InitField ==
  /\ pc = "field"
  /\ section_name = ""
  /\ gt_data \in DocsOver("contact", ContactItems)
  /\ model_data \in DocsOver("contact", ContactItems)
  /\ IdleCompare /\ IdleMulti /\ IdleField
  /\ IdleLater
  /\ IdleDetail /\ IdleCuration

NextField ==
  \/ FieldStart \/ FieldMulti \/ FieldMatchStep \/ FieldMatchDone \/ FieldPair
  \/ FieldPairsDone \/ FieldUnmatched \/ FieldUnmatchedDone \/ FieldDone

SpecField == InitField /\ [][NextField]_vars

(***************************************************************************)
(* calculate_field_recall_for_cell_line as one call: what it returns, or   *)
(* that it raised.  A section item that is not a dict (a JSON string       *)
(* where a record is expected) is a JSON value; calling .items() or .get() *)
(* on it raises AttributeError.                                            *)
(***************************************************************************)
is_dict(item) == "t" \notin DOMAIN item

\* match_multi_item_arrays from the g-th ground-truth record on
RECURSIVE match_pairs_from(_, _, _, _, _, _)
match_pairs_from(gt_items, model_items, matching_field, g, used, found_pairs) ==
  IF g > Len(gt_items) THEN found_pairs
  ELSE LET gt_key_value == get(gt_items[g], matching_field)
           found == unused_matching_indices(gt_key_value, model_items,
                                            matching_field, used)
       IN  IF ~is_missing_value(gt_key_value) /\ Cardinality(found) = 1
           THEN LET model_idx == CHOOSE i \in found : TRUE
                IN  match_pairs_from(gt_items, model_items, matching_field, g + 1,
                                     used \cup {model_idx},
                                     Append(found_pairs, <<g, model_idx>>))
           ELSE match_pairs_from(gt_items, model_items, matching_field, g + 1,
                                 used, found_pairs)

\* the matched (gt index, model index) pairs
match_multi_item_arrays(gt_items, model_items, matching_field) ==
  match_pairs_from(gt_items, model_items, matching_field, 1, {}, <<>>)

\* the loop over the matched pairs, from the k-th pair on
RECURSIVE matched_pairs_stats(_, _, _, _, _, _)
matched_pairs_stats(stats, name, gt_section, model_section, found_pairs, k) ==
  IF k > Len(found_pairs) THEN stats
  ELSE LET gt == gt_section[found_pairs[k][1]]
           model == model_section[found_pairs[k][2]]
       IN  matched_pairs_stats(field_compare(stats, name, gt, model, DOMAIN gt),
                               name, gt_section, model_section, found_pairs, k + 1)

\* the loop over the unmatched ground-truth records, from the g-th record on
RECURSIVE unmatched_stats(_, _, _, _, _)
unmatched_stats(stats, name, gt_section, found_pairs, g) ==
  IF g > Len(gt_section) THEN stats
  ELSE LET gt == gt_section[g]
           is_matched == \E k \in 1..Len(found_pairs) : found_pairs[k][1] = g
           next == IF is_matched THEN stats
                   ELSE field_count_only(stats, name, gt, DOMAIN gt)
       IN  unmatched_stats(next, name, gt_section, found_pairs, g + 1)

\* the multi-item branch for one section
field_multi_item(stats, gt_section, model_section, name) ==
  LET found_pairs == match_multi_item_arrays(gt_section, model_section,
                                             MULTI_ITEM_MATCHING_FIELDS(name))
      after_pairs == matched_pairs_stats(stats, name, gt_section, model_section,
                                         found_pairs, 1)
  IN  unmatched_stats(after_pairs, name, gt_section, found_pairs, 1)

\* the pass over one section raises AttributeError
section_raises(gt_section, name) ==
  IF name \in SINGLE_ITEM_ARRAYS
  THEN Len(gt_section) = 1 /\ ~is_dict(gt_section[1])
  ELSE /\ name \in MULTI_ITEM_ARRAYS
       /\ \E g \in 1..Len(gt_section) : ~is_dict(gt_section[g])

\* the pass over one section
section_stats(stats, gt_section, model_section, name) ==
  IF name \in SINGLE_ITEM_ARRAYS
  THEN field_single_item(stats, gt_section, model_section, name)
  ELSE IF name \in MULTI_ITEM_ARRAYS /\ MULTI_ITEM_MATCHING_FIELDS(name) # ""
  THEN field_multi_item(stats, gt_section, model_section, name)
  ELSE stats

\* "for section_name in all_sections": the loop stops at the section that
\* raises, with the counts of the sections before it in the local field_stats
RECURSIVE sections_loop(_, _, _, _)
sections_loop(state, gt, model, names) ==
  IF names = {} \/ state.raised THEN state
  ELSE LET name == CHOOSE x \in names : TRUE
           gt_section == get_section(gt, name)
           model_section == get_section(model, name)
           next == IF section_raises(gt_section, name)
                   THEN [state EXCEPT !.raised = TRUE]
                   ELSE [state EXCEPT !.stats = section_stats(@, gt_section,
                                                              model_section, name)]
       IN  sections_loop(next, gt, model, names \ {name})

\* [raised, stats]: stats is the returned dict, or the local field_stats at
\* the time of the exception
calculate_field_recall_for_cell_line(gt, model) ==
  sections_loop([raised |-> FALSE, stats |-> <<>>], gt, model,
                DOMAIN gt \cup DOMAIN model)

(***************************************************************************)
(* calculate_field_recall_for_model and the recall scores that             *)
(* calculate_all_models_field_recall derives from it.  A directory is a    *)
(* function from file names to file contents; a file content is a JSON     *)
(* document or text that json.load rejects.                                *)
(***************************************************************************)
JsonSuffix == <<".", "j", "s", "o", "n">>
ModelSuffix == <<"_", "m">> \o JsonSuffix
GtSuffix == <<"_", "g", "t">> \o JsonSuffix

endswith(s, suffix) ==
  Len(s) >= Len(suffix) /\ SubSeq(s, Len(s) - Len(suffix) + 1, Len(s)) = suffix

\* model_path.glob("*_m.json")
glob(dir) == {f \in DOMAIN dir : endswith(f, ModelSuffix)}

\* Path.stem: the file name without its last suffix
stem(name) ==
  LET dots == {i \in 2..Len(name) : name[i] = "."}
  IN  IF dots = {} THEN name
      ELSE SubSeq(name, 1, (CHOOSE i \in dots : \A j \in dots : j <= i) - 1)

\* s.replace(old, new): every occurrence, left to right
RECURSIVE replace(_, _, _)
replace(s, old, new) ==
  IF Len(s) < Len(old) THEN s
  ELSE IF SubSeq(s, 1, Len(old)) = old
  THEN new \o replace(SubSeq(s, Len(old) + 1, Len(s)), old, new)
  ELSE <<Head(s)>> \o replace(Tail(s), old, new)

\* cell_line_name = model_file.stem.replace("_m", "")
cell_line_name(model_file) == replace(stem(model_file), <<"_", "m">>, <<>>)

\* gt_path / f"{cell_line_name}_gt.json"
gt_file(model_file) == cell_line_name(model_file) \o GtSuffix

Invalid == [kind |-> "invalid", data |-> <<>>]
Json(doc) == [kind |-> "json", data |-> doc]

\* load_json_file raises ValueError
load_fails(content) == content.kind = "invalid"

\* what one pass of "for model_file in model_files" does with the file
outcome(model_file, models, gts) ==
  IF gt_file(model_file) \notin DOMAIN gts THEN "gt_not_found"
  ELSE IF load_fails(gts[gt_file(model_file)]) \/ load_fails(models[model_file])
  THEN "load_error"
  ELSE IF calculate_field_recall_for_cell_line(gts[gt_file(model_file)].data,
                                               models[model_file].data).raised
  THEN "scoring_error"
  ELSE "aggregated"

\* mutant: a later document replaces the counts of the earlier ones
add_counts_last(stats, field_path, field_matched, total_gt) ==
  IF field_path \in DOMAIN stats
  THEN [stats EXCEPT ![field_path] = <<field_matched, total_gt>>]
  ELSE stats @@ (field_path :> <<field_matched, total_gt>>)

\* aggregated_stats[field_path][0] += matched; aggregated_stats[field_path][1] += total_gt
add_counts(stats, field_path, field_matched, total_gt) ==
  bump(stats, field_path, field_matched, total_gt)

\* "for field_path, (matched, total_gt) in cell_line_stats.items()"
RECURSIVE aggregate(_, _, _)
aggregate(stats, cell_line_stats, paths) ==
  IF paths = {} THEN stats
  ELSE LET field_path == CHOOSE x \in paths : TRUE
       IN  aggregate(add_counts(stats, field_path, cell_line_stats[field_path][1],
                                cell_line_stats[field_path][2]),
                     cell_line_stats, paths \ {field_path})

\* mutant: the loop over the files ends at the first failure
after_failure_stop(left) == <<>>

\* "continue": the loop goes on with the next file
after_failure(left) == Tail(left)

\* the orders in which glob can yield the files
Orders(files) ==
  {s \in [1..Cardinality(files) -> files] :
     \A i, j \in 1..Cardinality(files) : i # j => s[i] # s[j]}

UnchangedDirs == UNCHANGED <<model_dir, gt_dir>>

UnchangedOutsideBatch ==
  /\ UNCHANGED <<gt_idx, result>>
  /\ UnchangedCompare /\ UnchangedInputs /\ UnchangedMulti /\ UnchangedField
  /\ UnchangedAge /\ UnchangedRecall
  /\ UnchangedDetail /\ UnchangedCuration

\* lines 193-200: the empty aggregate and the list of model files
BatchStart ==
  /\ pc = "start"
  /\ aggregated_stats' = <<>>
  /\ \E order \in Orders(glob(model_dir)) : files_left' = order
  /\ processed' = <<>>
  /\ pc' = "files"
  /\ UNCHANGED model_recall
  /\ UnchangedDirs /\ UnchangedOutsideBatch

\* one pass of "for model_file in model_files"
BatchFile ==
  /\ pc = "files"
  /\ files_left # <<>>
  /\ LET model_file == Head(files_left)
         what == outcome(model_file, model_dir, gt_dir)
     IN  IF what = "aggregated"
         THEN LET cell_line_stats ==
                    calculate_field_recall_for_cell_line(
                      gt_dir[gt_file(model_file)].data, model_dir[model_file].data).stats
              IN  /\ aggregated_stats' = aggregate(aggregated_stats, cell_line_stats,
                                                   DOMAIN cell_line_stats)
                  /\ files_left' = Tail(files_left)
                  /\ processed' = Append(processed,
                                         [model_file |-> model_file,
                                          gt_file |-> gt_file(model_file),
                                          outcome |-> what, stats |-> cell_line_stats])
         ELSE /\ aggregated_stats' = aggregated_stats
              /\ files_left' = after_failure(files_left)
              /\ processed' = Append(processed,
                                     [model_file |-> model_file,
                                      gt_file |-> gt_file(model_file),
                                      outcome |-> what, stats |-> <<>>])
  /\ UNCHANGED <<pc, model_recall>>
  /\ UnchangedDirs /\ UnchangedOutsideBatch

\* line 229: the aggregate is returned
BatchReturn ==
  /\ pc = "files"
  /\ files_left = <<>>
  /\ pc' = "recall"
  /\ UNCHANGED <<files_left, aggregated_stats, processed, model_recall>>
  /\ UnchangedDirs /\ UnchangedOutsideBatch

\* calculate_all_models_field_recall, lines 259-265: the recall of each field
ModelRecall ==
  /\ pc = "recall"
  /\ model_recall' = [field_path \in DOMAIN aggregated_stats |->
                        field_recall(aggregated_stats[field_path][1],
                                     aggregated_stats[field_path][2])]
  /\ pc' = "done"
  /\ UNCHANGED <<files_left, aggregated_stats, processed>>
  /\ UnchangedDirs /\ UnchangedOutsideBatch

\* cell line names; the last one holds "_m" inside
CellLines == {<<"a">>, <<"a", "b">>, <<"a", "_", "m", "b">>}

Lee == [x \in {"last_name"} |-> S(<<"L", "e", "e">>)]
Kim == [x \in {"last_name"} |-> S(<<"K", "i", "m">>)]
Age27 == [x \in {"age"} |-> S(<<"2", "7">>)]

\* ground-truth files: unreadable text, two contacts, a donor with one contact,
\* and a document whose contact section holds a string where a record is expected
GtContents ==
  { Invalid,
    Json([x \in {"contact"} |-> <<Lee, Kim>>]),
    Json([x \in {"donor", "contact"} |-> IF x = "donor" THEN <<Age27>> ELSE <<Lee>>]),
    Json([x \in {"donor", "contact"} |->
            IF x = "donor" THEN <<Age27>> ELSE <<S(<<"x">>)>>]) }

\* model files: unreadable text, one of the contacts with the donor, both contacts
ModelContents ==
  { Invalid,
    Json([x \in {"donor", "contact"} |-> IF x = "donor" THEN <<Age27>> ELSE <<Lee>>]),
    Json([x \in {"contact"} |-> <<Lee, Kim>>]) }

\* a file of the model directory that is no model output
OtherFiles == {<<>>, [x \in {<<"l", "o", "g">> \o JsonSuffix} |-> Invalid]}

ModelDirs ==
  {d @@ o : d \in UNION {[D -> ModelContents] :
                           D \in {X \in SUBSET {c \o ModelSuffix : c \in CellLines} :
                                    Cardinality(X) <= MaxFiles}},
            o \in OtherFiles}

GtDirs ==
  UNION {[D -> GtContents] : D \in SUBSET {c \o GtSuffix : c \in CellLines}}

(***************************************************************************)
(* SpecBatch: calculate_field_recall_for_model on a model directory and a  *)
(* ground-truth directory, then the recall of each field                   *)
(***************************************************************************)
InitBatch ==
  /\ pc = "start"
  /\ model_dir \in ModelDirs
  /\ gt_dir \in GtDirs
  /\ files_left = <<>> /\ aggregated_stats = <<>> /\ processed = <<>>
  /\ model_recall = <<>>
  /\ IdleCompare /\ IdleInputs /\ IdleMulti /\ IdleField /\ IdleAge /\ IdleRecall
  /\ IdleDetail /\ IdleCuration

NextBatch == BatchStart \/ BatchFile \/ BatchReturn \/ ModelRecall

SpecBatch == InitBatch /\ [][NextBatch]_vars

(***************************************************************************)
(* SpecRecall: set_recall of the two result classes and the per-field      *)
(* recall of calculate_all_models_field_recall, on every (matched, total)  *)
(***************************************************************************)
InitRecall ==
  /\ pc = "start"
  /\ total_in \in 0..MaxCount
  /\ matched_in \in 0..total_in
  /\ recall_out = <<0, 1>>
  /\ IdleCompare /\ IdleInputs /\ IdleMulti /\ IdleField /\ IdleBatch /\ IdleAge
  /\ IdleDetail /\ IdleCuration

UnchangedScorers ==
  /\ UNCHANGED gt_idx
  /\ UnchangedCompare /\ UnchangedInputs /\ UnchangedMulti /\ UnchangedField
  /\ UnchangedBatch /\ UnchangedAge
  /\ UnchangedDetail /\ UnchangedCuration

\* SingleItemRecallResult.set_recall
SetRecallSingle ==
  /\ pc = "start"
  /\ result' = set_recall(NewSingleResult("donor"), matched_in, total_in)
  /\ pc' = "single_set"
  /\ UNCHANGED <<matched_in, total_in, recall_out>>
  /\ UnchangedScorers

\* MultiItemRecallResult.set_recall
SetRecallMulti ==
  /\ pc = "start"
  /\ result' = set_recall(NewMultiResult("contact"), matched_in, total_in)
  /\ pc' = "multi_set"
  /\ UNCHANGED <<matched_in, total_in, recall_out>>
  /\ UnchangedScorers

\* the per-field recall of calculate_all_models_field_recall
FieldRecall ==
  /\ pc = "start"
  /\ recall_out' = field_recall(matched_in, total_in)
  /\ pc' = "field_recall"
  /\ UNCHANGED <<matched_in, total_in, result>>
  /\ UnchangedScorers

NextRecall == SetRecallSingle \/ SetRecallMulti \/ FieldRecall

SpecRecall == InitRecall /\ [][NextRecall]_vars

(***************************************************************************)
(* age_range_correction.py.  Python's int(str) and float(str) are modelled *)
(* on strings of digits, "_", "-", "+", ".", blanks and lower-case         *)
(* letters, without exponent parts and short enough for a float to hold    *)
(* the number exactly.                                                     *)
(***************************************************************************)
PyInt(k) == [t |-> "int", n |-> k]
ValueError == [t |-> "ValueError", n |-> 0]
OverflowError == [t |-> "OverflowError", n |-> 0]
NoneAge == [t |-> "None", n |-> 0]
NoneRange == [t |-> "None", lo |-> 0, hi |-> 0]
PyRange(min_age, max_age) == [t |-> "tuple", lo |-> min_age, hi |-> max_age]

\* bool(value), as "not value" tests it
truthy(v) ==
  CASE v.t = "null" -> FALSE
    [] v.t = "str" -> v.s # <<>>
    [] v.t = "int" -> v.n # 0
    [] v.t = "bool" -> v.n = 1

IsDigit(c) == c \in {"0", "1", "2", "3", "4", "5", "6", "7", "8", "9"}
DigitValue(c) == CHOOSE d \in 0..9 : Digit(d) = c

\* digits, with single underscores allowed between two digits
IsDigitPart(s) ==
  /\ s # <<>>
  /\ \A i \in 1..Len(s) :
       \/ IsDigit(s[i])
       \/ /\ s[i] = "_"
          /\ i > 1 /\ i < Len(s)
          /\ IsDigit(s[i - 1]) /\ IsDigit(s[i + 1])

RECURSIVE DecimalValue(_)
DecimalValue(s) ==
  IF s = <<>> THEN 0
  ELSE LET front == SubSeq(s, 1, Len(s) - 1)
       IN  IF s[Len(s)] = "_" THEN DecimalValue(front)
           ELSE 10 * DecimalValue(front) + DigitValue(s[Len(s)])

HasSign(s) == s # <<>> /\ s[1] \in {"+", "-"}
Unsigned(s) == IF HasSign(s) THEN Tail(s) ELSE s
Sign(s) == IF HasSign(s) /\ s[1] = "-" THEN -1 ELSE 1

\* int(s) of a string
int(s) ==
  LET body == Unsigned(strip(s))
  IN  IF IsDigitPart(body) THEN PyInt(Sign(strip(s)) * DecimalValue(body))
      ELSE ValueError

\* int(float(s)) of a string: truncation towards zero; int(inf) raises
\* OverflowError and int(nan) raises ValueError
int_float(s) ==
  LET body == Unsigned(strip(s))
      sign == Sign(strip(s))
      dots == {i \in 1..Len(body) : body[i] = "."}
  IN  IF body \in {<<"i", "n", "f">>, <<"i", "n", "f", "i", "n", "i", "t", "y">>}
      THEN OverflowError
      ELSE IF body = <<"n", "a", "n">> THEN ValueError
      ELSE IF dots = {}
      THEN IF IsDigitPart(body) THEN PyInt(sign * DecimalValue(body)) ELSE ValueError
      ELSE IF Cardinality(dots) > 1 THEN ValueError
      ELSE LET d == CHOOSE i \in dots : TRUE
               whole == SubSeq(body, 1, d - 1)
               fraction == SubSeq(body, d + 1, Len(body))
           IN  IF \/ whole = <<>> /\ fraction = <<>>
                  \/ whole # <<>> /\ ~IsDigitPart(whole)
                  \/ fraction # <<>> /\ ~IsDigitPart(fraction)
               THEN ValueError
               ELSE PyInt(sign * DecimalValue(whole))

\* s.split(sep)
RECURSIVE split(_, _)
split(s, sep) ==
  IF \A i \in 1..Len(s) : s[i] # sep THEN <<s>>
  ELSE LET i == CHOOSE k \in 1..Len(s) : s[k] = sep /\ \A j \in 1..(k - 1) : s[j] # sep
       IN  <<SubSeq(s, 1, i - 1)>> \o split(SubSeq(s, i + 1, Len(s)), sep)

\* "not age_str or str(age_str).strip() in [...]"
age_is_missing(age_str) ==
  ~truthy(age_str) \/ strip(str(age_str)) \in MissingSentinels

\* the separator parse_age_range looks for
RangeSeparators == {"_"}

parse_age_range(age_str) ==
  IF age_is_missing(age_str) THEN NoneRange
  ELSE LET s == strip(str(age_str))
           seps == {s[i] : i \in 1..Len(s)} \cap RangeSeparators
       IN  IF seps = {} THEN NoneRange
           ELSE LET parts == split(s, CHOOSE c \in seps : TRUE)
                IN  IF Len(parts) # 2 THEN NoneRange
                    ELSE LET min_age == int(parts[1])
                             max_age == int(parts[2])
                         IN  IF min_age.t = "int" /\ max_age.t = "int"
                             THEN PyRange(min_age.n, max_age.n)
                             ELSE NoneRange

\* an int, None, or the OverflowError that "except ValueError" does not catch
parse_single_age(age_str) ==
  IF age_is_missing(age_str) THEN NoneAge
  ELSE LET r == int_float(strip(str(age_str)))
       IN  IF r.t = "ValueError" THEN NoneAge ELSE r

is_age_in_range(age, age_range) == age_range.lo <= age /\ age <= age_range.hi

PyBool(b) == IF b THEN "True" ELSE "False"

\* lines 99-112: ground truth as a single age
single_age_branch(gt_value, model_value) ==
  LET gt_age == parse_single_age(gt_value)
      model_range == parse_age_range(model_value)
      model_age == parse_single_age(model_value)
  IN  IF gt_age.t = "OverflowError" THEN "OverflowError"
      ELSE IF gt_age.t = "None" THEN "False"
      ELSE IF model_range.t = "tuple" THEN PyBool(is_age_in_range(gt_age.n, model_range))
      ELSE IF model_age.t = "OverflowError" THEN "OverflowError"
      ELSE IF model_age.t = "int" THEN PyBool(gt_age.n = model_age.n)
      ELSE "False"

\* "True", "False", or "OverflowError" when the call raises
ages_are_semantically_equivalent(gt_value, model_value) ==
  IF ~truthy(gt_value) \/ ~truthy(model_value) THEN "False"
  ELSE IF strip(str(gt_value)) = strip(str(model_value)) THEN "True"
  ELSE LET gt_range == parse_age_range(gt_value)
           model_age == parse_single_age(model_value)
           model_range == parse_age_range(model_value)
       IN  IF gt_range.t = "tuple"
           THEN IF model_age.t = "OverflowError" THEN "OverflowError"
                ELSE IF model_age.t = "int"
                THEN PyBool(is_age_in_range(model_age.n, gt_range))
                ELSE IF model_range.t = "tuple"
                THEN PyBool(gt_range.lo = model_range.lo /\ gt_range.hi = model_range.hi)
                ELSE single_age_branch(gt_value, model_value)
           ELSE single_age_branch(gt_value, model_value)

\* donor.age values: numbers, single ages, ranges, and values that are neither
AgeValues ==
  { I(0), I(3), I(27),
    S(<<"0">>), S(<<"3">>), S(<<"2", "7">>), S(<<" ", "2", "7", ".", "0">>),
    S(<<"0", "_", "4">>), S(<<"2", "5", "_", "2", "9">>),
    S(<<"2", "5", " ", "_", "2", "9">>),
    S(<<"2", "5", "-", "2", "9">>),
    S(<<"i", "n", "f">>), S(<<"u", "n", "k", "n", "o", "w", "n">>),
    S(MissingStr) }

(***************************************************************************)
(* SpecAge: ages_are_semantically_equivalent on every pair of AgeValues    *)
(***************************************************************************)
InitAge ==
  /\ pc = "start"
  /\ age_gt \in AgeValues
  /\ age_model \in AgeValues
  /\ equivalent = "none"
  /\ IdleCompare /\ IdleInputs /\ IdleMulti /\ IdleField /\ IdleBatch /\ IdleRecall
  /\ IdleDetail /\ IdleCuration

AgesEquivalent ==
  /\ pc = "start"
  /\ equivalent' = ages_are_semantically_equivalent(age_gt, age_model)
  /\ pc' = "done"
  /\ UNCHANGED <<age_gt, age_model, gt_idx, result>>
  /\ UnchangedCompare /\ UnchangedInputs /\ UnchangedMulti /\ UnchangedField
  /\ UnchangedBatch /\ UnchangedRecall
  /\ UnchangedDetail /\ UnchangedCuration

NextAge == AgesEquivalent

SpecAge == InitAge /\ [][NextAge]_vars

(***************************************************************************)
(* detailed_analysis.py                                                    *)
(***************************************************************************)
\* the default of model_item.get(field_name, "MISSING")
MissingDefault == S(<<"M", "I", "S", "S", "I", "N", "G">>)

\* one pass of the loop of detailed_field_comparison: the (matched, total)
\* increments
detailed_field(gt, model, field_name) ==
  LET gt_value == gt[field_name]
      model_value == IF field_name \in DOMAIN model THEN model[field_name]
                     ELSE MissingDefault
  IN  IF non_missing(gt_value)
      THEN <<IF strip(str(gt_value)) = strip(str(model_value)) THEN 1 ELSE 0, 1>>
      ELSE <<0, 0>>

RECURSIVE detailed_from(_, _, _)
detailed_from(gt, model, keys) ==
  IF keys = {} THEN <<0, 0>>
  ELSE LET key == CHOOSE k \in keys : TRUE
           one == detailed_field(gt, model, key)
           rest == detailed_from(gt, model, keys \ {key})
       IN  <<one[1] + rest[1], one[2] + rest[2]>>

detailed_field_comparison(gt, model) == detailed_from(gt, model, DOMAIN gt)

\* analyze_single_item_arrays: (total_matched, total_fields) over the sections
RECURSIVE analyze_single_sections(_, _, _)
analyze_single_sections(gt, model, names) ==
  IF names = {} THEN <<0, 0>>
  ELSE LET name == CHOOSE x \in names : TRUE
           gt_section == get_section(gt, name)
           model_section == get_section(model, name)
           one == IF Len(gt_section) = 1 /\ Len(model_section) = 1
                  THEN detailed_field_comparison(gt_section[1], model_section[1])
                  ELSE <<0, 0>>
           rest == analyze_single_sections(gt, model, names \ {name})
       IN  <<one[1] + rest[1], one[2] + rest[2]>>

\* analyze_multi_item_arrays: (section_matched, section_total) from the g-th
\* ground-truth record on
RECURSIVE analyze_multi_records(_, _, _, _)
analyze_multi_records(gt_section, model_section, found, g) ==
  IF g > Len(gt_section) THEN <<0, 0>>
  ELSE LET item == gt_section[g]
           one == IF g \in DOMAIN found
                  THEN IF Len(found[g]) = 1
                       THEN detailed_field_comparison(item, model_section[found[g][1]])
                       ELSE <<0, 0>>
                  ELSE <<0, count_non_missing_fields(item)>>
           rest == analyze_multi_records(gt_section, model_section, found, g + 1)
       IN  <<one[1] + rest[1], one[2] + rest[2]>>

\* analyze_multi_item_arrays: (total_matched, total_fields) over the sections
RECURSIVE analyze_multi_sections(_, _, _)
analyze_multi_sections(gt, model, names) ==
  IF names = {} THEN <<0, 0>>
  ELSE LET name == CHOOSE x \in names : TRUE
           gt_section == get_section(gt, name)
           model_section == get_section(model, name)
           matching_field == MULTI_ITEM_MATCHING_FIELDS(name)
           one == IF gt_section = <<>> \/ model_section = <<>> \/ matching_field = ""
                  THEN <<0, 0>>
                  ELSE analyze_multi_records(
                         gt_section, model_section,
                         find_item_matches(gt_section, model_section, matching_field), 1)
           rest == analyze_multi_sections(gt, model, names \ {name})
       IN  <<one[1] + rest[1], one[2] + rest[2]>>

\* the f-string "{a/b:.3f}" raises when b = 0
division_raises(a, b) == Divide(a, b) = ZeroDivisionError

UnchangedOutsideDetail ==
  /\ UNCHANGED <<result, gt_idx>>
  /\ UnchangedMulti /\ UnchangedField /\ UnchangedBatch /\ UnchangedAge
  /\ UnchangedRecall /\ UnchangedCuration

\* detailed_field_comparison and compare_items_fieldwise on the same records
DetailedCompare ==
  /\ pc = "start"
  /\ detail_result' = detailed_field_comparison(gt_item, model_item)
  /\ cmp_result' = compare_items_fieldwise(gt_item, model_item)
  /\ pc' = "done"
  /\ UNCHANGED <<gt_item, model_item, analysis>>
  /\ UnchangedInputs /\ UnchangedOutsideDetail

\* analyze_single_item_arrays, with the summary line it prints
AnalyzeSingle ==
  /\ pc = "start"
  /\ LET totals == analyze_single_sections(gt_data, model_data, SINGLE_ITEM_ARRAYS)
     IN  IF division_raises(totals[1], totals[2])
         THEN /\ analysis' = [analysis EXCEPT !.error = "ZeroDivisionError"]
              /\ pc' = "raised"
         ELSE /\ analysis' = [analysis EXCEPT !.single = totals]
              /\ pc' = "multi"
  /\ UNCHANGED detail_result
  /\ UnchangedCompare /\ UnchangedInputs /\ UnchangedOutsideDetail

\* analyze_multi_item_arrays, with the summary line it prints
AnalyzeMulti ==
  /\ pc = "multi"
  /\ LET totals == analyze_multi_sections(gt_data, model_data, MULTI_ITEM_ARRAYS)
     IN  IF division_raises(totals[1], totals[2])
         THEN /\ analysis' = [analysis EXCEPT !.error = "ZeroDivisionError"]
              /\ pc' = "raised"
         ELSE /\ analysis' = [analysis EXCEPT !.multi = totals]
              /\ pc' = "summary"
  /\ UNCHANGED detail_result
  /\ UnchangedCompare /\ UnchangedInputs /\ UnchangedOutsideDetail

\* analyze_cell_line_detailed: the overall summary
AnalyzeSummary ==
  /\ pc = "summary"
  /\ LET total_matched == analysis.single[1] + analysis.multi[1]
         total_fields == analysis.single[2] + analysis.multi[2]
     IN  IF \/ division_raises(analysis.single[1], analysis.single[2])
            \/ division_raises(analysis.multi[1], analysis.multi[2])
            \/ division_raises(total_matched, total_fields)
         THEN /\ analysis' = [analysis EXCEPT !.error = "ZeroDivisionError"]
              /\ pc' = "raised"
         ELSE /\ analysis' = [analysis EXCEPT !.combined = <<total_matched, total_fields>>]
              /\ pc' = "done"
  /\ UNCHANGED detail_result
  /\ UnchangedCompare /\ UnchangedInputs /\ UnchangedOutsideDetail

\* values of the two comparators' inputs: null, the sentinel, the default
\* "MISSING", padded and plain strings, a number and the string it prints as
DetailValues ==
  {None, S(MissingStr), MissingDefault, S(<<"a">>), S(<<" ", "a", " ">>), I(1),
   S(<<"1">>)}

DetailItems == RecordsOver({"age", "sex"}, DetailValues)

\* documents with a donor section and a contact section
AnalysisDocs ==
  {[x \in {"donor", "contact"} |-> IF x = "donor" THEN d ELSE c] :
     d \in {<<>>, <<Age27>>, <<[x \in {"age"} |-> S(MissingStr)]>>, <<Age27, Age27>>},
     c \in {<<>>, <<Lee>>, <<Lee, Kim>>, <<Lee, Lee>>}}

(***************************************************************************)
(* SpecDetail: detailed_field_comparison beside compare_items_fieldwise    *)
(***************************************************************************)
InitDetail ==
  /\ pc = "start"
  /\ gt_item \in DetailItems /\ model_item \in DetailItems
  /\ cmp_result = <<0, 0>>
  /\ IdleInputs /\ IdleMulti /\ IdleField /\ IdleLater
  /\ IdleDetail /\ IdleCuration

NextDetail == DetailedCompare

SpecDetail == InitDetail /\ [][NextDetail]_vars

(***************************************************************************)
(* SpecAnalysis: analyze_cell_line_detailed on a pair of documents         *)
(***************************************************************************)
InitAnalysis ==
  /\ pc = "start"
  /\ gt_data \in AnalysisDocs /\ model_data \in AnalysisDocs
  /\ section_name = ""
  /\ detail_result = <<0, 0>>
  /\ analysis = [single |-> <<0, 0>>, multi |-> <<0, 0>>, combined |-> <<0, 0>>,
                 error |-> "none"]
  /\ IdleCompare /\ IdleMulti /\ IdleField /\ IdleLater /\ IdleCuration

NextAnalysis == AnalyzeSingle \/ AnalyzeMulti \/ AnalyzeSummary

SpecAnalysis == InitAnalysis /\ [][NextAnalysis]_vars

(***************************************************************************)
(* identify_cell_lines: the parsing of the model's reply.  A reply is the  *)
(* outcome of client.chat.completions.create: an exception, or a message   *)
(* content with the usage the API reports.                                 *)
(***************************************************************************)
Quote == "\""
\* the backquote character, which a string of this language cannot hold
Backtick == "backquote"
Fence == <<Backtick, Backtick, Backtick>>
PythonFence == <<Backtick, Backtick, Backtick, "p", "y", "t", "h", "o", "n">>
MinusOneText == <<"-", "1">>
NoCellLinesText == <<"n", "o", " ", "c", "e", "l", "l", " ", "l", "i", "n", "e", "s">>
UpperCase == <<"A", "B", "C", "D", "E", "F", "G", "H", "I", "J", "K", "L", "M", "N", "O", "P", "Q", "R", "S", "T", "U", "V", "W", "X", "Y", "Z">>
LowerCase == <<"a", "b", "c", "d", "e", "f", "g", "h", "i", "j", "k", "l", "m", "n", "o", "p", "q", "r", "s", "t", "u", "v", "w", "x", "y", "z">>

\* sub in s
contains(s, sub) ==
  \E i \in 1..(Len(s) - Len(sub) + 1) : SubSeq(s, i, i + Len(sub) - 1) = sub

\* s.lower()
lower(s) ==
  [i \in 1..Len(s) |->
     IF \E k \in 1..Len(UpperCase) : UpperCase[k] = s[i]
     THEN LowerCase[CHOOSE k \in 1..Len(UpperCase) : UpperCase[k] = s[i]]
     ELSE s[i]]

\* s.find(sub, start): the lowest 0-based index from start on, or -1
find(s, sub, start) ==
  LET hits == {i \in start..(Len(s) - Len(sub)) :
                 SubSeq(s, i + 1, i + Len(sub)) = sub}
  IN  IF hits = {} THEN -1 ELSE CHOOSE i \in hits : \A j \in hits : i <= j

\* s[start:end] for start >= 0; a negative end counts from the right
slice(s, start, end) ==
  LET stop == IF end < 0
              THEN (IF Len(s) + end < 0 THEN 0 ELSE Len(s) + end)
              ELSE (IF end > Len(s) THEN Len(s) ELSE end)
  IN  SubSeq(s, start + 1, stop)

\* a double-quoted string literal without escapes
is_string_literal(s) ==
  /\ Len(s) >= 2
  /\ s[1] = Quote /\ s[Len(s)] = Quote
  /\ \A i \in 2..(Len(s) - 1) : s[i] \notin {Quote, "\\"}

\* ast.literal_eval on the literals the replies hold: a list of string
\* literals, a string literal or a decimal integer; anything else raises
literal_eval(s) ==
  IF Len(s) >= 2 /\ s[1] = "[" /\ s[Len(s)] = "]"
  THEN LET inner == strip(SubSeq(s, 2, Len(s) - 1))
           parts == split(inner, ",")
       IN  IF inner = <<>> THEN [kind |-> "list", value |-> <<>>]
           ELSE IF \A i \in 1..Len(parts) : is_string_literal(strip(parts[i]))
           THEN [kind |-> "list",
                 value |-> [i \in 1..Len(parts) |->
                              SubSeq(strip(parts[i]), 2, Len(strip(parts[i])) - 1)]]
           ELSE [kind |-> "raised", value |-> <<>>]
  ELSE IF is_string_literal(s) THEN [kind |-> "str", value |-> <<>>]
  ELSE IF IsDigitPart(s) THEN [kind |-> "int", value |-> <<>>]
  ELSE [kind |-> "raised", value |-> <<>>]

\* the text handed to ast.literal_eval
list_str(content) ==
  IF contains(content, PythonFence)
  THEN LET start == find(content, PythonFence, 0) + 9
           end == find(content, Fence, start)
       IN  strip(slice(content, start, end))
  ELSE strip(content)

\* the dictionaries identify_cell_lines returns
NoCellLines(usage) ==
  [key |-> "cell_lines", minus_one |-> TRUE, cell_lines |-> <<>>, usage_metadata |-> usage]
CellLineList(names, usage) ==
  [key |-> "cell_lines", minus_one |-> FALSE, cell_lines |-> names, usage_metadata |-> usage]
IdentifyError(usage) ==
  [key |-> "error", minus_one |-> FALSE, cell_lines |-> <<>>, usage_metadata |-> usage]

\* "-1" in result or "no cell lines" in result.lower()
no_line_test(content) ==
  contains(content, MinusOneText) \/ contains(lower(content), NoCellLinesText)

identify_cell_lines(reply) ==
  IF reply.raised THEN IdentifyError(0)
  ELSE IF no_line_test(reply.content) THEN NoCellLines(reply.total_tokens)
  ELSE LET parsed == literal_eval(list_str(reply.content))
       IN  IF parsed.kind = "list" THEN CellLineList(parsed.value, reply.total_tokens)
           ELSE IdentifyError(reply.total_tokens)

\* the variables of the scoring programs
UnchangedScoring ==
  /\ UNCHANGED <<result, gt_idx>>
  /\ UnchangedCompare /\ UnchangedInputs /\ UnchangedField /\ UnchangedMulti
  /\ UnchangedBatch /\ UnchangedAge /\ UnchangedRecall /\ UnchangedDetail

UnchangedOutsideIdentify ==
  UnchangedScoring /\ UnchangedCurate /\ UnchangedHarness

\* identify_cell_lines on the reply received
Identify ==
  /\ pc = "start"
  /\ identification_result' = identify_cell_lines(raw_response)
  /\ pc' = "done"
  /\ UNCHANGED raw_response
  /\ UnchangedOutsideIdentify

H9 == <<"H", "9">>
HES3 == <<"H", "E", "S", "3">>
IPSC1 == <<"i", "P", "S", "C", "-", "1">>
Clone1 == <<"C", "l", "o", "n", "e", "-", "1">>
LineNames == {H9, HES3, IPSC1, Clone1}

\* repr of a list of names
RECURSIVE list_repr_items(_)
list_repr_items(names) ==
  IF names = <<>> THEN <<>>
  ELSE <<Quote>> \o Head(names) \o <<Quote>>
       \o (IF Len(names) > 1 THEN <<",", " ">> ELSE <<>>)
       \o list_repr_items(Tail(names))

list_repr(names) == <<"[">> \o list_repr_items(names) \o <<"]">>

NameLists == {<<>>} \cup {<<a>> : a \in LineNames}
             \cup {<<a, b>> : a \in LineNames, b \in LineNames}

Fenced(text) == PythonFence \o <<" ">> \o text \o <<" ">> \o Fence
Prose == <<"L", "i", "n", "e", "s", " ", "f", "o", "u", "n", "d", ":", " ">>

ListReplies ==
  {list_repr(names) : names \in NameLists}
  \cup {Fenced(list_repr(names)) : names \in NameLists}
  \cup {Prose \o Fenced(list_repr(names)) : names \in NameLists}

OtherReplies ==
  { MinusOneText,
    <<"N", "o", " ", "c", "e", "l", "l", " ", "l", "i", "n", "e", "s", " ", "f", "o", "u", "n", "d">>,
    <<"T", "h", "e", " ", "a", "r", "t", "i", "c", "l", "e", " ", "r", "e", "p", "o", "r", "t", "s", " ", "n", "o", " ", "c", "e", "l", "l", " ", "l", "i", "n", "e", "s", ".">>,
    <<"\"", "H", "9", "\"">>,
    <<"7">>,
    <<"H", "9", ",", " ", "H", "E", "S", "3">>,
    PythonFence \o <<" ">> \o list_repr(<<H9>>) }

Tokens == {1, 2}

Reply(content, tokens) == [raised |-> FALSE, content |-> content, total_tokens |-> tokens]
ApiFailure == [raised |-> TRUE, content |-> <<>>, total_tokens |-> 0]

Replies ==
  {Reply(content, tokens) : content \in ListReplies \cup OtherReplies, tokens \in Tokens}
  \cup {ApiFailure}

InitIdentify ==
  /\ pc = "start"
  /\ raw_response \in Replies
  /\ identification_result = <<>>
  /\ IdleCompare /\ IdleInputs /\ IdleMulti /\ IdleField /\ IdleLater /\ IdleDetail
  /\ IdleCurate /\ IdleHarness

NextIdentify == Identify

SpecIdentify == InitIdentify /\ [][NextIdentify]_vars

(***************************************************************************)
(* curate_article: the identification, then up to three curate_line calls  *)
(* for each identified cell line.  One step of the loop is one call of     *)
(* curate_line.                                                            *)
(***************************************************************************)
ErrorText == <<"E", "r", "r", "o", "r">>
ExceptionText == <<"E", "x", "c", "e", "p", "t", "i", "o", "n">>

\* s.startswith(prefix)
startswith(s, prefix) ==
  Len(s) >= Len(prefix) /\ SubSeq(s, 1, Len(prefix)) = prefix

\* what curate_line returns: the dictionary with the reply's content and
\* usage, or the text of the exception
curate_line(reply) ==
  IF reply.raised
  THEN [kind |-> "str", result |-> <<>>, usage |-> 0]
  ELSE [kind |-> "dict", result |-> reply.content, usage |-> reply.total_tokens]

\* mutant: every dictionary counts as a valid result
looks_valid_any_dict(response) == response.kind = "dict"

\* isinstance(response, dict) and "result" in response and the result
\* "looks valid"
looks_valid(response) ==
  /\ response.kind = "dict"
  /\ ~startswith(response.result, ErrorText)
  /\ ~startswith(response.result, ExceptionText)
  /\ Len(response.result) > 50

\* mutant: the usage of every dictionary is added
add_usage_every_dict(total, response) ==
  IF response.kind = "dict" THEN total + response.usage ELSE total

\* total_usage["total_tokens"] += usage_data["total_tokens"], on success only
add_usage(total, response) ==
  IF looks_valid(response) THEN total + response.usage ELSE total

\* attempt == max_retries - 1, with max_retries = 3
last_attempt(tried) == tried = 3 - 1

\* the values curate_article returns
\* an error message; none of them is the text "-1"
ReturnText == [kind |-> "str", text |-> ErrorText]
ReturnMinusOne == [kind |-> "int", value |-> -1]
ReturnDict(outputs, failed, lines, usage) ==
  [kind |-> "dict",
   curated_data |-> outputs,
   failed_cell_lines |-> failed,
   total_cell_lines |-> Len(lines),
   successful_curations |-> Cardinality(DOMAIN outputs),
   total_tokens |-> usage]

\* contents of a curate_line reply: a text of the given length
Padded(prefix, length) ==
  prefix \o [i \in 1..(length - Len(prefix)) |-> "x"]

CurationReplies ==
  { ApiFailure,
    Reply(Padded(ErrorText, 51), 2),
    Reply(Padded(ExceptionText, 51), 2),
    Reply(Padded(<<"{">>, 50), 1),
    Reply(Padded(<<"{">>, 51), 1),
    Reply(Padded(<<"{">>, 51), 2) }

\* the identification replies of the articles curated
ArticleReplies ==
  {Reply(content, tokens) :
     content \in {list_repr(<<>>), list_repr(<<H9>>), list_repr(<<H9, HES3>>),
                  list_repr(<<H9, H9>>), list_repr(<<IPSC1>>), MinusOneText,
                  <<"7">>},
     tokens \in Tokens}
  \cup {ApiFailure}

UnchangedLoop ==
  UNCHANGED <<unique_cell_lines, line_idx, attempt, structured_outputs,
              failed_cell_line_names, total_usage, attempts_log>>

\* curate_article up to the loop: the conversion of the article and the
\* identification of the cell lines
CurateStart ==
  /\ pc = "start"
  /\ \E converted \in BOOLEAN :
       IF ~converted
       THEN /\ curate_return' = ReturnText
            /\ pc' = "done"
            /\ UNCHANGED identification_result
            /\ UnchangedLoop
       ELSE LET identified == identify_cell_lines(raw_response)
            IN  /\ identification_result' = identified
                /\ IF identified.key = "error"
                   THEN /\ curate_return' = ReturnText
                        /\ pc' = "done"
                        /\ UnchangedLoop
                   ELSE IF identified.minus_one
                   THEN /\ curate_return' = ReturnMinusOne
                        /\ pc' = "done"
                        /\ UnchangedLoop
                   ELSE /\ unique_cell_lines' = identified.cell_lines
                        /\ total_usage' = identified.usage_metadata
                        /\ attempts_log' = [i \in 1..Len(identified.cell_lines) |-> <<>>]
                        /\ line_idx' = 1
                        /\ attempt' = 0
                        /\ pc' = "lines"
                        /\ UNCHANGED <<structured_outputs, failed_cell_line_names,
                                       curate_return>>
  /\ UNCHANGED raw_response
  /\ UnchangedScoring /\ UnchangedHarness

\* one attempt for the current cell line
CurateLine ==
  /\ pc = "lines"
  /\ line_idx <= Len(unique_cell_lines)
  /\ \E reply \in CurationReplies :
       LET cell_line == unique_cell_lines[line_idx]
           response == curate_line(reply)
           success == looks_valid(response)
       IN  /\ attempts_log' = [attempts_log EXCEPT ![line_idx] = Append(@, response)]
           /\ structured_outputs' =
                IF success
                THEN (cell_line :> response.result) @@ structured_outputs
                ELSE structured_outputs
           /\ total_usage' = add_usage(total_usage, response)
           /\ failed_cell_line_names' =
                IF ~success /\ last_attempt(attempt)
                THEN Append(failed_cell_line_names, cell_line)
                ELSE failed_cell_line_names
           /\ IF success \/ last_attempt(attempt)
              THEN line_idx' = line_idx + 1 /\ attempt' = 0
              ELSE line_idx' = line_idx /\ attempt' = attempt + 1
  /\ UNCHANGED <<pc, unique_cell_lines, curate_return>>
  /\ UnchangedIdentify
  /\ UnchangedScoring /\ UnchangedHarness

\* the result dictionary after the loop
CurateReturn ==
  /\ pc = "lines"
  /\ line_idx > Len(unique_cell_lines)
  /\ curate_return' = ReturnDict(structured_outputs, failed_cell_line_names,
                                 unique_cell_lines, total_usage)
  /\ pc' = "done"
  /\ UnchangedLoop
  /\ UnchangedIdentify
  /\ UnchangedScoring /\ UnchangedHarness

InitCurate ==
  /\ pc = "start"
  /\ raw_response \in ArticleReplies
  /\ identification_result = <<>>
  /\ IdleCompare /\ IdleInputs /\ IdleMulti /\ IdleField /\ IdleLater /\ IdleDetail
  /\ IdleCurate /\ IdleHarness

NextCurate == CurateStart \/ CurateLine \/ CurateReturn

SpecCurate == InitCurate /\ [][NextCurate]_vars

(***************************************************************************)
(* test_curate_scr_articles: the loop over the articles and the three      *)
(* records it keeps.  An article is the outcome of reading it and of its   *)
(* curate_article call, and whether save_results completes.                *)
(***************************************************************************)
MaxArticles == 3

\* a result of 51 characters
Metadata == Padded(<<"{">>, 51)

\* the values curate_article returns
CurateReturns ==
  { ReturnText,
    ReturnMinusOne,
    ReturnDict(<<>>, <<>>, <<>>, 1),
    ReturnDict(H9 :> Metadata, <<>>, <<H9>>, 2),
    ReturnDict(<<>>, <<H9>>, <<H9>>, 1) }

\* results is missing when the read or the curate_article call raised
Articles ==
  {[raised |-> TRUE, results |-> ReturnText, saved |-> TRUE]}
  \cup {[raised |-> FALSE, results |-> r, saved |-> TRUE] : r \in CurateReturns}
  \cup {[raised |-> FALSE, results |-> r, saved |-> FALSE] :
          r \in {x \in CurateReturns : x.kind = "dict"}}

\* isinstance(results, str)
is_str(results) == results.kind = "str"

\* results == "-1"
is_minus_one_text(results) == results.kind = "str" /\ results.text = MinusOneText

\* one pass of the loop over the articles
HarnessArticle ==
  /\ pc = "articles"
  /\ article_idx <= Len(articles)
  /\ LET article == articles[article_idx]
         results == article.results
     IN  IF article.raised
         THEN /\ failed_articles' = Append(failed_articles, article_idx)
              /\ UNCHANGED <<processed_articles, no_cell_line_articles>>
         ELSE IF is_str(results)
         THEN IF is_minus_one_text(results)
              THEN /\ no_cell_line_articles' = Append(no_cell_line_articles, article_idx)
                   /\ UNCHANGED <<processed_articles, failed_articles>>
              ELSE /\ failed_articles' = Append(failed_articles, article_idx)
                   /\ UNCHANGED <<processed_articles, no_cell_line_articles>>
         ELSE IF results.kind = "dict"
         THEN /\ processed_articles' = processed_articles + 1
              /\ failed_articles' =
                   IF article.saved THEN failed_articles
                   ELSE Append(failed_articles, article_idx)
              /\ UNCHANGED no_cell_line_articles
         ELSE UNCHANGED <<processed_articles, failed_articles, no_cell_line_articles>>
  /\ article_idx' = article_idx + 1
  /\ UNCHANGED <<pc, articles>>
  /\ UnchangedScoring /\ UnchangedIdentify /\ UnchangedCurate

\* the summary statistics after the loop
HarnessSummary ==
  /\ pc = "articles"
  /\ article_idx > Len(articles)
  /\ pc' = "done"
  /\ UnchangedHarness
  /\ UnchangedScoring /\ UnchangedIdentify /\ UnchangedCurate

InitHarness ==
  /\ pc = "articles"
  /\ articles \in SeqsUpTo(Articles, MaxArticles)
  /\ article_idx = 1
  /\ processed_articles = 0
  /\ failed_articles = <<>>
  /\ no_cell_line_articles = <<>>
  /\ IdleCompare /\ IdleInputs /\ IdleMulti /\ IdleField /\ IdleLater /\ IdleDetail
  /\ IdleIdentify /\ IdleCurate

NextHarness == HarnessArticle \/ HarnessSummary

SpecHarness == InitHarness /\ [][NextHarness]_vars

(***************************************************************************)
(* Properties                                                              *)
(***************************************************************************)
GtSection == get_section(gt_data, section_name)
ModelSection == get_section(model_data, section_name)
KeyField == MULTI_ITEM_MATCHING_FIELDS(section_name)

\* the trimmed string form of a value
Trimmed(v) == strip(str(v))

\* the record holds the field with a non-missing value
Defined(item, f) ==
  /\ f \in DOMAIN item
  /\ item[f] # None
  /\ Trimmed(item[f]) # <<>> /\ Trimmed(item[f]) # MissingStr /\ Trimmed(item[f]) # NoneStr

DefinedFields(item) == {f \in DOMAIN item : Defined(item, f)}

\* the model records whose non-missing key equals, trimmed, the key of gt record g
EqualKeyModels(g) ==
  {m \in 1..Len(ModelSection) :
     /\ Defined(ModelSection[m], KeyField)
     /\ Trimmed(ModelSection[m][KeyField]) = Trimmed(GtSection[g][KeyField])}

\* the number of non-missing fields of the gt records g with Keep(g), from i on
RECURSIVE DefinedFieldsSum(_, _)
DefinedFieldsSum(keep, i) ==
  IF i > Len(GtSection) THEN 0
  ELSE (IF i \in keep THEN Cardinality(DefinedFields(GtSection[i])) ELSE 0)
       + DefinedFieldsSum(keep, i + 1)

\* the loop of calculate_multi_item_recall is about to handle gt record gt_idx
AtRecord == pc = "loop" /\ gt_idx <= Len(GtSection)

\* the counters of the loop are what the result reports
ResultReportsCounters ==
  (pc = "loop" /\ pc' = "done") =>
     /\ result'.matched_fields = total_matched_fields
     /\ result'.total_gt_fields = total_gt_fields
     /\ result'.skipped_items = skipped_items

\* C1: in calculate_multi_item_recall a ground-truth record whose non-missing
\* key equals the trimmed key of two or more model records adds nothing to
\* matched_fields and total_gt_fields and adds exactly 1 to skipped_items
C1_AmbiguousRecordSkipped ==
  [][/\ (AtRecord /\ Defined(GtSection[gt_idx], KeyField)
           /\ Cardinality(EqualKeyModels(gt_idx)) >= 2)
         => /\ total_matched_fields' = total_matched_fields
            /\ total_gt_fields' = total_gt_fields
            /\ skipped_items' = skipped_items + 1
            /\ gt_idx' = gt_idx + 1
     /\ ResultReportsCounters]_vars

C1_Witness ==
  /\ pc = "loop" /\ gt_idx = 2
  /\ Defined(GtSection[1], KeyField)
  /\ Cardinality(EqualKeyModels(1)) >= 2
  /\ ModelSection[1][KeyField] # ModelSection[2][KeyField]
  /\ skipped_items = 1

\* C2: in the field-level pipeline a ground-truth record whose key matched two
\* or more not yet consumed model records adds nothing to the matched count
\* and nothing to the total_gt count of any field path
C2_FieldAmbiguousRecordExcluded ==
  [][/\ (pc = "unmatched" /\ gt_idx <= Len(GtSection) /\ match_counts[gt_idx] >= 2)
         => field_stats' = field_stats
     /\ (pc = "pairs" /\ pair_idx <= Len(pairs) /\ match_counts[pairs[pair_idx][1]] >= 2)
         => field_stats' = field_stats]_vars

\* C3: in calculate_multi_item_recall a ground-truth record whose key is
\* absent or missing adds nothing to matched_fields and total_gt_fields,
\* whatever the model section holds, the empty model section included
C3_MissingKeyRecordExcluded ==
  [][/\ (AtRecord /\ ~Defined(GtSection[gt_idx], KeyField))
         => /\ total_matched_fields' = total_matched_fields
            /\ total_gt_fields' = total_gt_fields
     /\ (pc = "start" /\ Len(GtSection) > 0 /\ Len(ModelSection) = 0)
         => /\ result'.matched_fields = 0
            /\ result'.total_gt_fields =
                 DefinedFieldsSum({g \in 1..Len(GtSection) :
                                     Defined(GtSection[g], KeyField)}, 1)]_vars

\* C4: no model record is the comparison partner of more than one
\* ground-truth record of the section
C4_OneToOneMatching ==
  \A p \in compared : \A q \in compared : p[2] = q[2] => p[1] = q[1]

\* C5: in calculate_multi_item_recall with a non-empty ground-truth section a
\* ground-truth record with a non-missing key that no model record's trimmed
\* key equals (the model section may be empty) adds nothing to matched_fields
\* and exactly its number of non-missing fields to total_gt_fields
C5_UnmatchedRecordFullMiss ==
  [][/\ (AtRecord /\ Defined(GtSection[gt_idx], KeyField) /\ EqualKeyModels(gt_idx) = {})
         => /\ total_matched_fields' = total_matched_fields
            /\ total_gt_fields' = total_gt_fields
                                    + Cardinality(DefinedFields(GtSection[gt_idx]))
            /\ skipped_items' = skipped_items
     /\ (pc = "start" /\ Len(GtSection) > 0 /\ Len(ModelSection) = 0)
         => /\ result'.matched_fields = 0
            /\ result'.total_gt_fields = DefinedFieldsSum(1..Len(GtSection), 1)
     /\ ResultReportsCounters]_vars

C5_Witness ==
  /\ pc = "loop" /\ gt_idx = 2
  /\ Defined(GtSection[1], KeyField)
  /\ Len(ModelSection) = 2
  /\ \E m \in 1..2 : Defined(ModelSection[m], KeyField)
  /\ EqualKeyModels(1) = {}
  /\ total_gt_fields = 2 /\ total_matched_fields = 0

\* C6: compare_items_fieldwise returns total = the number of non-missing
\* fields of gt and matched = the number of those fields that model holds with
\* a value of the same trimmed string form; a field the model lacks is never
\* matched, a "Missing" gt field adds to neither count, and fields only the
\* model holds change neither count
C6_CompareCounts ==
  pc = "done" =>
    LET counted == DefinedFields(gt_item)
        equal == {f \in counted : /\ f \in DOMAIN model_item
                                  /\ Trimmed(model_item[f]) = Trimmed(gt_item[f])}
    IN  /\ cmp_result = <<Cardinality(equal), Cardinality(counted)>>
        /\ \A f \in DOMAIN gt_item :
             (f \notin DOMAIN model_item \/ gt_item[f] = S(MissingStr)) => f \notin equal
        /\ \A f \in DOMAIN gt_item : gt_item[f] = S(MissingStr) => f \notin counted

C6_Witness ==
  /\ pc = "done"
  /\ DOMAIN gt_item = {"age", "sex"} /\ DOMAIN model_item = {"age", "sex"}
  /\ gt_item["age"] = S(<<"a">>) /\ model_item["age"] = S(<<" ", "a", " ">>)
  /\ gt_item["sex"] = S(MissingStr) /\ model_item["sex"] = S(MissingStr)
  /\ cmp_result = <<1, 1>>

\* the scorer of the single-item section has returned
SingleScored == pc # "start"

\* C7: calculate_single_item_recall returns the missing-section status (the
\* code's tag is "missing_sections") with matched_fields = 0, total_gt_fields
\* = 0 and recall = 0.0 when the ground-truth section is absent or empty,
\* whatever the model section holds
C7_GtMissingSection ==
  (SingleScored /\ Len(GtSection) = 0) =>
     /\ result.status = "missing_sections"
     /\ result.matched_fields = 0
     /\ result.total_gt_fields = 0
     /\ result.recall = Zero

C7_Witness ==
  /\ pc = "done"
  /\ "donor" \notin DOMAIN gt_data
  /\ Len(get_section(model_data, "donor")) = 2
  /\ result.status = "missing_sections"

\* C8: a single-item section whose ground truth holds more than one record is
\* skipped: calculate_single_item_recall returns the ground-truth cardinality
\* status (the code's tag is "gt_multiple_items") with matched_fields = 0 and
\* total_gt_fields = 0, and calculate_field_recall_for_cell_line counts
\* nothing for any field path of the section
C8_GtCardinalitySkipped ==
  /\ (SingleScored /\ Len(get_section(gt_data, "donor")) > 1) =>
        /\ result.status = "gt_multiple_items"
        /\ result.matched_fields = 0
        /\ result.total_gt_fields = 0
  /\ (pc \in {"sections", "done"} /\ Len(get_section(gt_data, "donor")) > 1) =>
        \A path \in DOMAIN field_stats : path[1] # "donor"

C8_Witness ==
  /\ pc = "done"
  /\ Len(get_section(gt_data, "donor")) = 2
  /\ DefinedFields(get_section(gt_data, "donor")[1]) # {}
  /\ Len(get_section(model_data, "donor")) = 1
  /\ result.status = "gt_multiple_items"
  /\ field_stats = <<>>

\* C9: with exactly one ground-truth record and zero or several model records
\* calculate_single_item_recall returns matched_fields = 0 and total_gt_fields
\* = the number of non-missing fields of the record, recall 0.0 when positive
C9_ModelCardinalityFullMiss ==
  (SingleScored /\ Len(get_section(gt_data, "donor")) = 1
     /\ Len(get_section(model_data, "donor")) # 1) =>
     /\ result.matched_fields = 0
     /\ result.total_gt_fields
          = Cardinality(DefinedFields(get_section(gt_data, "donor")[1]))
     /\ result.total_gt_fields > 0 => result.recall = Zero

C9_Witness ==
  /\ pc = "done"
  /\ Len(get_section(gt_data, "donor")) = 1
  /\ Len(get_section(model_data, "donor")) = 2
  /\ get_section(model_data, "donor")[1] = get_section(gt_data, "donor")[1]
  /\ result.total_gt_fields = 2 /\ result.matched_fields = 0

\* C10: with exactly one ground-truth record and several model records the
\* result of calculate_single_item_recall carries a status other than the
\* "success" of a one-to-one comparison
C10_ModelCardinalityStatus ==
  (SingleScored /\ Len(get_section(gt_data, "donor")) = 1
     /\ Len(get_section(model_data, "donor")) > 1) =>
     result.status # "success"

\* r is the recall of (m, t): 0.0 when t = 0 and the quotient m / t otherwise,
\* and no division error
IsRecallOf(r, m, t) ==
  /\ r # <<0, 0>>
  /\ IF t = 0 THEN r = <<0, 1>> ELSE r[2] > 0 /\ r[1] * t = m * r[2]

\* C12: a total of 0 gives recall 0.0 without a division error, and a total
\* > 0 gives recall = matched / total, in set_recall of both result classes
\* and in the per-field recall of calculate_all_models_field_recall
C12_ZeroSafeRecall ==
  /\ pc \in {"single_set", "multi_set"} =>
       /\ result.matched_fields = matched_in
       /\ result.total_gt_fields = total_in
       /\ IsRecallOf(result.recall, matched_in, total_in)
  /\ pc = "field_recall" => IsRecallOf(recall_out, matched_in, total_in)

C12_Witness ==
  /\ pc = "multi_set"
  /\ total_in = 0
  /\ result.recall = <<0, 1>>

\* C14: when the ground-truth section is empty or absent, calculate_multi_item_recall
\* returns matched_fields = 0 and total_gt_fields = 0 whatever the model section
\* holds, and the status of the result is not the one of a scored section
C14_EmptyGtReportedMissing ==
  (pc = "done" /\ Len(GtSection) = 0) =>
    /\ result.matched_fields = 0
    /\ result.total_gt_fields = 0
    /\ result.status # "success"

\* the value is the single integer age n, as a number or as its decimal string
IsSingleAge(v, n) == v = I(n) \/ v = S(Digits(n))

\* the value is the range string "a<sep>b"
IsRangeWith(v, sep, a, b) == v = S(Digits(a) \o <<sep>> \o Digits(b))

\* C17: with a range "a_b" (a <= b) on one side and a single integer age n on the
\* other, ages_are_semantically_equivalent returns true exactly when a <= n <= b,
\* whichever side holds the range
C17_AgeWithinRange ==
  pc = "done" =>
    \A a \in 0..AgeLimit : \A b \in a..AgeLimit : \A n \in 0..AgeLimit :
      (\/ IsRangeWith(age_gt, "_", a, b) /\ IsSingleAge(age_model, n)
       \/ IsRangeWith(age_model, "_", a, b) /\ IsSingleAge(age_gt, n))
      => ((equivalent = "True") <=> (a <= n /\ n <= b))

\* C18: two non-missing age values with the same trimmed string form, numbers
\* such as 0 included, are equivalent
C18_ExactStringMatch ==
  (/\ pc = "done"
   /\ non_missing(age_gt) /\ non_missing(age_model)
   /\ Trimmed(age_gt) = Trimmed(age_model))
  => equivalent = "True"

\* the value parses neither as a single integer age nor as an integer range
Unparseable(v) ==
  parse_single_age(v).t # "int" /\ parse_age_range(v).t # "tuple"

\* C19: when the ground-truth value or the model value parses neither as a single
\* integer age nor as an integer range, ages_are_semantically_equivalent returns
\* false
C19_UnparseableNeverEquivalent ==
  (pc = "done" /\ (Unparseable(age_gt) \/ Unparseable(age_model)))
  => equivalent = "False"

\* C20: a hyphen-delimited ground-truth range "a-b" is parsed to (a, b) and is
\* equivalent to a single age exactly as the range "a_b" is
C20_HyphenRangeParsed ==
  pc = "done" =>
    \A a \in 0..AgeLimit : \A b \in a..AgeLimit : \A n \in 0..AgeLimit :
      (IsRangeWith(age_gt, "-", a, b) /\ IsSingleAge(age_model, n))
      => /\ parse_age_range(age_gt) = PyRange(a, b)
         /\ equivalent = ages_are_semantically_equivalent(
                           S(Digits(a) \o <<"_">> \o Digits(b)), age_model)

\* the model files the glob yields and the ground-truth content each is paired with
ModelFiles == glob(model_dir)
GtContent(f) == gt_dir[gt_file(f)]

\* the document of model file f fails: its ground-truth file is missing, one of
\* the two files cannot be loaded, or scoring raises
Fails(f) ==
  \/ gt_file(f) \notin DOMAIN gt_dir
  \/ GtContent(f).kind = "invalid"
  \/ model_dir[f].kind = "invalid"
  \/ calculate_field_recall_for_cell_line(GtContent(f).data, model_dir[f].data).raised

\* the (matched, total_gt) statistics of the document of model file f
DocStats(f) ==
  calculate_field_recall_for_cell_line(GtContent(f).data, model_dir[f].data).stats

ScoredFiles == {f \in ModelFiles : ~Fails(f)}

\* the sum over the documents of files of count k (1 matched, 2 total_gt) of a field
RECURSIVE SumCounts(_, _, _)
SumCounts(files, field_path, k) ==
  IF files = {} THEN 0
  ELSE LET f == CHOOSE x \in files : TRUE
       IN  (IF field_path \in DOMAIN DocStats(f) THEN DocStats(f)[field_path][k] ELSE 0)
           + SumCounts(files \ {f}, field_path, k)

ScoredPaths == UNION {DOMAIN DocStats(f) : f \in ScoredFiles}

\* C11: the recall of a field path for the model is (sum of matched over the
\* processed documents) / (sum of total_gt over the processed documents): the
\* counts are summed before the division
C11_SumThenDivide ==
  pc = "done" =>
    /\ DOMAIN model_recall = ScoredPaths
    /\ \A field_path \in DOMAIN model_recall :
         IsRecallOf(model_recall[field_path],
                    SumCounts(ScoredFiles, field_path, 1),
                    SumCounts(ScoredFiles, field_path, 2))

\* two documents with (1, 2) and (1, 1) for a field give 2/3, not the mean 3/4
C11_Witness ==
  /\ pc = "done"
  /\ \E i, j \in DOMAIN processed : \E field_path \in DOMAIN model_recall :
       /\ processed[i].outcome = "aggregated" /\ processed[j].outcome = "aggregated"
       /\ field_path \in DOMAIN processed[i].stats
       /\ field_path \in DOMAIN processed[j].stats
       /\ processed[i].stats[field_path] = <<1, 2>>
       /\ processed[j].stats[field_path] = <<1, 1>>
       /\ model_recall[field_path] = <<2, 3>>

\* C13: a failing document does not stop the batch: every model file is visited,
\* and the aggregate holds the counts of the documents that did not fail and
\* nothing of a failing one
C13_FailureSkipsDocument ==
  pc \in {"recall", "done"} =>
    /\ {processed[i].model_file : i \in DOMAIN processed} = ModelFiles
    /\ Len(processed) = Cardinality(ModelFiles)
    /\ DOMAIN aggregated_stats = ScoredPaths
    /\ \A field_path \in DOMAIN aggregated_stats :
         aggregated_stats[field_path] = <<SumCounts(ScoredFiles, field_path, 1),
                                          SumCounts(ScoredFiles, field_path, 2)>>

\* a document whose scoring raises after counting a section, then a scored one
C13_Witness ==
  /\ pc = "done"
  /\ Len(processed) = 2
  /\ processed[1].outcome = "scoring_error"
  /\ calculate_field_recall_for_cell_line(
       GtContent(processed[1].model_file).data,
       model_dir[processed[1].model_file].data).stats # <<>>
  /\ processed[2].outcome = "aggregated"
  /\ aggregated_stats = processed[2].stats
  /\ aggregated_stats # <<>>

\* C15: the model file X_m.json is paired with X_gt.json, X being the file name
\* without its trailing _m.json, also when X holds "_m"
C15_PairedByTrailingSuffix ==
  \A i \in DOMAIN processed :
    LET name == processed[i].model_file
    IN  processed[i].gt_file =
          SubSeq(name, 1, Len(name) - Len(ModelSuffix)) \o GtSuffix

\* C22: the detailed analysis of a document pair completes without a division
\* error, also when no field is scored in the single-item group or in the
\* multi-item group
C22_AnalysisCompletes ==
  pc \in {"multi", "summary", "done", "raised"} => analysis.error = "none"

\* C30: detailed_field_comparison returns the same (matched, total) pair as
\* compare_items_fieldwise for every pair of records
C30_SameAsCompare ==
  pc = "done" => detail_result = cmp_result

\* field_stats[field_path], (0, 0) for a path the result does not hold
StatsOf(stats, field_path) ==
  IF field_path \in DOMAIN stats THEN stats[field_path] ELSE <<0, 0>>

\* the field names of the records of a section
FieldsOf(section) == UNION {DOMAIN section[i] : i \in 1..Len(section)}

\* the number of ground-truth records of the section that hold a non-missing
\* value for the field; a single-item section counts only with one record
GtRecordsWith(gt, name, field_name) ==
  LET section == get_section(gt, name)
      holders == {g \in 1..Len(section) : Defined(section[g], field_name)}
  IN  IF name \in SINGLE_ITEM_ARRAYS
      THEN IF Len(section) = 1 THEN Cardinality(holders) ELSE 0
      ELSE IF name \in MULTI_ITEM_ARRAYS THEN Cardinality(holders) ELSE 0

\* C26: the total_gt of every field path calculate_field_recall_for_cell_line
\* returns is a function of the ground-truth document alone: the number of
\* ground-truth records of the section with a non-missing value for the field
C26_TotalFromGroundTruth ==
  pc = "done" =>
    /\ \A name \in DOMAIN gt_data : \A field_name \in FieldsOf(gt_data[name]) :
         StatsOf(field_stats, get_field_path(name, field_name))[2]
           = GtRecordsWith(gt_data, name, field_name)
    /\ \A field_path \in DOMAIN field_stats :
         /\ field_path[1] \in DOMAIN gt_data
         /\ field_path[2] \in FieldsOf(gt_data[field_path[1]])

\* two ground-truth contacts, one paired and one not, both counted
C26_Witness ==
  /\ pc = "done"
  /\ Len(get_section(gt_data, "contact")) = 2
  /\ Len(pairs) = 1
  /\ StatsOf(field_stats, get_field_path("contact", "last_name")) = <<1, 2>>

\* the sum of count k of the field paths of a section
RECURSIVE SectionSum(_, _, _, _)
SectionSum(stats, name, paths, k) ==
  IF paths = {} THEN 0
  ELSE LET field_path == CHOOSE x \in paths : TRUE
       IN  (IF field_path[1] = name THEN stats[field_path][k] ELSE 0)
           + SectionSum(stats, name, paths \ {field_path}, k)

\* C27: for a single-item section the sums of matched and of total_gt over the
\* field paths calculate_field_recall_for_cell_line returns equal the
\* matched_fields and total_gt_fields of calculate_single_item_recall
C27_ScorersAgree ==
  (pc = "done" /\ section_name \in SINGLE_ITEM_ARRAYS) =>
    /\ SectionSum(field_stats, section_name, DOMAIN field_stats, 1)
         = result.matched_fields
    /\ SectionSum(field_stats, section_name, DOMAIN field_stats, 2)
         = result.total_gt_fields

\* one ground-truth record with fields beside two model records
C27_Witness ==
  /\ pc = "done"
  /\ Len(get_section(gt_data, "donor")) = 1
  /\ Len(get_section(model_data, "donor")) = 2
  /\ result.matched_fields = 0
  /\ result.total_gt_fields = 2
  /\ SectionSum(field_stats, "donor", DOMAIN field_stats, 2) = 2

\* the document with the records of the section in the given order
Permuted(data, name, order) ==
  IF name \in DOMAIN data
  THEN [data EXCEPT ![name] = [i \in 1..Len(data[name]) |-> data[name][order[i]]]]
  ELSE data

SectionOrders(data, name) == Orders(1..Len(get_section(data, name)))

\* C28: permuting the ground-truth records, or the model records, of a
\* multi-item section leaves the (matched, total_gt) of every field path
\* unchanged
C28_OrderIndependent ==
  pc = "done" =>
    \A gt_order \in SectionOrders(gt_data, "contact") :
      \A model_order \in SectionOrders(model_data, "contact") :
        calculate_field_recall_for_cell_line(
          Permuted(gt_data, "contact", gt_order),
          Permuted(model_data, "contact", model_order)).stats = field_stats

\* C29: every field path of a document's statistics and of the aggregate has
\* 0 <= matched <= total_gt and total_gt >= 1, and every recall lies in [0, 1]
C29_CountsBounded ==
  LET Bounded(stats) ==
        \A field_path \in DOMAIN stats :
          /\ 0 <= stats[field_path][1]
          /\ stats[field_path][1] <= stats[field_path][2]
          /\ stats[field_path][2] >= 1
  IN  /\ Bounded(aggregated_stats)
      /\ \A i \in DOMAIN processed : Bounded(processed[i].stats)
      /\ \A field_path \in DOMAIN model_recall :
           /\ model_recall[field_path][2] > 0
           /\ 0 <= model_recall[field_path][1]
           /\ model_recall[field_path][1] <= model_recall[field_path][2]

\* a field no document matched: recall 0 over a total of 1
C29_Witness ==
  /\ pc = "done"
  /\ \E field_path \in DOMAIN model_recall :
       /\ aggregated_stats[field_path] = <<0, 1>>
       /\ model_recall[field_path] = <<0, 1>>
  /\ \E field_path \in DOMAIN model_recall : aggregated_stats[field_path][2] >= 2

\* C21: identify_cell_lines returns cell_lines = -1 only when the reply reports
\* no cell line; a reply that is a well-formed list of names is returned as
\* that list
C21_ListReturnedAsList ==
  pc = "done" =>
    \A names \in NameLists \ {<<>>} :
      (~raw_response.raised /\ raw_response.content = list_repr(names))
        => identification_result = CellLineList(names, raw_response.total_tokens)

\* a valid result: a dictionary whose result does not start with "Error" or
\* "Exception" and is longer than 50 characters
ValidResult(response) ==
  /\ response.kind = "dict"
  /\ Len(response.result) >= 51
  /\ SubSeq(response.result, 1, 5) # ErrorText
  /\ SubSeq(response.result, 1, 9) # ExceptionText

\* all three attempts for the cell line at position i were invalid
AllInvalid(i) ==
  /\ Len(attempts_log[i]) = 3
  /\ \A k \in 1..3 : ~ValidResult(attempts_log[i][k])

\* the names, in order, of the first n cell lines whose attempts were all invalid
RECURSIVE InvalidLines(_)
InvalidLines(n) ==
  IF n = 0 THEN <<>>
  ELSE InvalidLines(n - 1) \o (IF AllInvalid(n) THEN <<unique_cell_lines[n]>> ELSE <<>>)

RECURSIVE ValidTokens(_, _)
ValidTokens(log, n) ==
  IF n = 0 THEN 0
  ELSE ValidTokens(log, n - 1) + (IF ValidResult(log[n]) THEN log[n].usage ELSE 0)

\* the tokens of the valid attempts of the first n cell lines
RECURSIVE SuccessTokens(_)
SuccessTokens(n) ==
  IF n = 0 THEN 0
  ELSE SuccessTokens(n - 1) + ValidTokens(attempts_log[n], Len(attempts_log[n]))

Range(s) == {s[i] : i \in 1..Len(s)}

PairwiseDistinct(s) == \A i, j \in 1..Len(s) : s[i] = s[j] => i = j

\* C25: in the result dictionary for pairwise distinct cell line names the
\* keys of curated_data and the entries of failed_cell_lines are disjoint and
\* together are the identified cell lines, successful_curations +
\* len(failed_cell_lines) = total_cell_lines, and total_tokens is the
\* identification tokens plus the tokens of the successful attempts
C25_ResultPartition ==
  (pc = "done" /\ curate_return.kind = "dict" /\ PairwiseDistinct(unique_cell_lines)) =>
    /\ DOMAIN curate_return.curated_data \cap Range(curate_return.failed_cell_lines) = {}
    /\ DOMAIN curate_return.curated_data \cup Range(curate_return.failed_cell_lines)
         = Range(identification_result.cell_lines)
    /\ curate_return.successful_curations + Len(curate_return.failed_cell_lines)
         = curate_return.total_cell_lines
    /\ curate_return.total_cell_lines = Len(identification_result.cell_lines)
    /\ curate_return.total_tokens
         = identification_result.usage_metadata + SuccessTokens(Len(attempts_log))

\* one success after an invalid dictionary whose tokens are not counted, and
\* one failure
C25_Witness ==
  /\ pc = "done"
  /\ curate_return.kind = "dict"
  /\ unique_cell_lines = <<H9, HES3>>
  /\ DOMAIN curate_return.curated_data = {H9}
  /\ curate_return.failed_cell_lines = <<HES3>>
  /\ Len(attempts_log[1]) = 2
  /\ attempts_log[1][1].kind = "dict" /\ attempts_log[1][1].usage = 2
  /\ attempts_log[1][2].usage = 1
  /\ identification_result.usage_metadata = 2
  /\ curate_return.total_tokens = 3

\* C23: every article whose curate_article call returns is recorded in exactly
\* one of processed, failed_articles and no_cell_line_articles, an article
\* without cell lines in no_cell_line_articles, so that the number of articles
\* is processed + failed + no-cell-line at the end of the run
C23_EveryArticleRecorded ==
  pc = "done" =>
    /\ \A i \in 1..Len(articles) :
         (~articles[i].raised /\ articles[i].results = ReturnMinusOne)
           => i \in Range(no_cell_line_articles)
    /\ Len(articles)
         = processed_articles + Len(failed_articles) + Len(no_cell_line_articles)

====
